---- MODULE Spec2Model ----
(***************************************************************************)
(* Model of deko: MagicReader (the 6-byte lookahead buffer), the detector  *)
(* InnerDecoder::new and the lazy dispatcher AnyDecoder, for the           *)
(* destructive (Read) and the peekable (BufRead) front-end.                *)
(*                                                                         *)
(* Bytes are integers 0..255.  The underlying source R is a byte sequence  *)
(* `content` that is handed out in chunks: `cuts` is the set of offsets at *)
(* which a fetch stops, `pos` the number of bytes the source has given     *)
(* away.  `faults` is the queue of outcomes of the coming calls of the     *)
(* source ("Ok", or the kind of the io::Error the call returns).           *)
(***************************************************************************)
EXTENDS Integers, Sequences, FiniteSets, TLC

VARIABLES
    frontend,                \* "Read" | "BufRead": which macro instance is modelled
    harness,                 \* "AnyDecoder" | "MagicReader": the object under test
    content,                 \* the bytes of the underlying source
    cuts,                    \* offsets where a fetch of the source stops
    pos,                     \* bytes the underlying source has handed out
    faults,                  \* outcomes of the coming calls of the source
    errs,                    \* number of io::Errors the source has returned
    buf, first, last,        \* MagicReader fields
    reader,                  \* AnyDecoder.reader is Some
    inner,                   \* variant of AnyDecoder.inner
    fail_on_unknown_format,  \* AnyDecoder.fail_on_unknown_format
    alive,                   \* the object has not been consumed by into_inner
    delivered,               \* bytes MagicReader has delivered to its consumer
    lastOp,                  \* name of the last operation called
    lastRes,                 \* its result
    hist,                    \* history of the run, for the properties
    encoder                  \* the AnyEncoder that wrote the source, if any

vars == << frontend, harness, content, cuts, pos, faults, errs, buf, first, last,
           reader, inner, fail_on_unknown_format, alive, delivered, lastOp,
           lastRes, hist, encoder >>

-----------------------------------------------------------------------------
(* Bounds of the model *)

MaxLen == 8        \* longest verbatim content
MaxCut == 2        \* fetch boundaries are placed at offsets 1..MaxCut
MaxFaults == 2     \* outcomes that can be queued for the source of an AnyDecoder
MaxFaultsMR == 3   \* outcomes that can be queued for the source of a bare MagicReader
MaxReq == 7        \* largest caller buffer for read / read_exact
MaxPayload == 2    \* bytes that follow a magic prefix

(* Program constants *)

MAX_MAGIC_BYTES == 6

-----------------------------------------------------------------------------
(* Helpers *)

Min(a, b) == IF a < b THEN a ELSE b

Take(s, n) == SubSeq(s, 1, Min(n, Len(s)))

Drop(s, n) == SubSeq(s, Min(n, Len(s)) + 1, Len(s))

Counting(n) == [i \in 1..n |-> i]

Hello == << 72, 101, 108, 108, 111 >>

XzMagic == << 253, 55, 122, 88, 90, 0 >>
ZstdMagic == << 40, 181, 47, 253 >>
GzMagic == << 31, 139, 8 >>
BzMagic == << 66, 90, 104 >>
ZlibMagic == << 120, 156 >>

Magics == { XzMagic, ZstdMagic, GzMagic, BzMagic, ZlibMagic }

\* lengths of the contents that match no rule: the boundary cases of the
\* 6-byte sniff and a stream longer than the lookahead buffer
Lengths == { 0, 1, 2, MAX_MAGIC_BYTES - 1, MAX_MAGIC_BYTES, MaxLen }

\* the contents the source of an AnyDecoder can hold: streams that match no
\* rule, streams that start with a magic prefix, and near misses
Contents ==
    { Counting(n) : n \in Lengths }
    \cup { Hello }
    \cup Magics
    \cup { GzMagic \o Counting(MaxPayload) }
    \cup { Take(XzMagic, 5), << 120 >>, << 120, 157, 1 >>, << 31, 139 >> }

\* the contents the source of a bare MagicReader can hold: distinct bytes,
\* text with a two-byte character across the end of the lookahead buffer,
\* and bytes that are not UTF-8
ContentsMR ==
    { Counting(n) : n \in Lengths }
    \cup { << 72, 105, 33, 34, 35, 195, 169 >>, << 72, 105, 33, 34, 35, 36, 255 >> }

\* the contents whose source is also run with failing calls
FaultContents ==
    { Counting(0), Counting(2), Counting(MaxLen), GzMagic \o Counting(MaxPayload) }

FaultKinds == { "Ok", "Interrupted", "Other" }

NoErr == [kind |-> "None", id |-> 0]

\* an io::Error this crate or std creates (not one of the source's)
NewErr(k) == [kind |-> k, id |-> 0]

\* results of the operations: st is the state after the call, out the bytes
\* written to the caller's buffer, calls the calls made on the source
Ok(st, n, out) == [st |-> st, tag |-> "Ok", n |-> n, out |-> out, err |-> NoErr]

Err(st, e, out) == [st |-> st, tag |-> "Err", n |-> 0, out |-> out, err |-> e]

-----------------------------------------------------------------------------
(* The underlying source R.  st is the record of the MagicReader and of    *)
(* its source: buf, first, last, pos, faults, errs and, for the call under *)
(* way, calls (calls made on the source), srcErr (the last error the      *)
(* source returned), eofSeen (the source reported end of stream),         *)
(* afterEof (it was called again after that), consumed (bytes passed to   *)
(* R::consume), errAt (the number of the call that returned srcErr), fe   *)
(* (the front-end the MagicReader was built for).                          *)

NextCut(p) ==
    LET N == Len(content)
        later == { c \in cuts : c > p /\ c < N }
    IN IF later = {} THEN N ELSE CHOOSE c \in later : \A d \in later : c <= d

\* one call of a method of the source: takes the next queued outcome
Called(st) ==
    [st EXCEPT !.calls = @ + 1,
               !.afterEof = @ \/ st.eofSeen,
               !.faults = IF @ = << >> THEN @ ELSE Tail(@)]

Outcome(st) == IF st.faults = << >> THEN "Ok" ELSE Head(st.faults)

\* the source returns Err(kind): a fresh error value
Failed(st, kind) ==
    LET e == [kind |-> kind, id |-> st.errs + 1]
    IN [Called(st) EXCEPT !.errs = @ + 1, !.srcErr = e, !.errAt = st.calls + 1]

\* what a failed call of the source returns
ErrOf(s1) == Err(s1, s1.srcErr, << >>)

\* a successful R::read that hands out n bytes to a buffer of length L
ReadOk(st, n, L) ==
    Ok([Called(st) EXCEPT !.pos = @ + n, !.eofSeen = @ \/ (L > 0 /\ n = 0)],
       n, SubSeq(content, st.pos + 1, st.pos + n))

\* R::read(buf) with buf.len() = L
R_read(st, L) ==
    IF Outcome(st) # "Ok"
    THEN ErrOf(Failed(st, Outcome(st)))
    ELSE ReadOk(st, Min(L, NextCut(st.pos) - st.pos), L)

\* a successful R::fill_buf that shows n bytes
FillOk(st, n) ==
    Ok([Called(st) EXCEPT !.eofSeen = @ \/ n = 0],
       n, SubSeq(content, st.pos + 1, st.pos + n))

\* R::fill_buf(): the bytes up to the next fetch boundary, none consumed
R_fill_buf(st) ==
    IF Outcome(st) # "Ok"
    THEN ErrOf(Failed(st, Outcome(st)))
    ELSE FillOk(st, NextCut(st.pos) - st.pos)

\* R::consume(n)
R_consume(st, n) == [st EXCEPT !.pos = @ + n, !.consumed = @ + n]

\* the length of the first buffer of `lens` that is not empty, or 0
FirstNonEmpty(lens) ==
    IF \A i \in 1..Len(lens) : lens[i] = 0 THEN 0
    ELSE lens[CHOOSE i \in 1..Len(lens) :
                  lens[i] > 0 /\ \A j \in 1..(i - 1) : lens[j] = 0]

\* R::read_vectored(bufs): the default of std, a read into the first
\* buffer that is not empty
R_read_vectored(st, lens) == R_read(st, FirstNonEmpty(lens))

\* R::read_exact(buf): the default of std, a loop of reads that retries
\* Interrupted and fails with UnexpectedEof at end of stream; r is the
\* result of the read of one iteration
RECURSIVE R_read_exact_loop(_, _, _)
RECURSIVE R_read_exact_step(_, _, _)
R_read_exact_step(r, L, acc) ==
    IF r.tag = "Err"
    THEN IF r.err.kind = "Interrupted"
         THEN R_read_exact_loop(r.st, L, acc)
         ELSE Err(r.st, r.err, acc)
    ELSE IF r.n = 0
         THEN Err(r.st, NewErr("UnexpectedEof"), acc)
         ELSE R_read_exact_loop(r.st, L - r.n, acc \o r.out)

R_read_exact_loop(st, L, acc) ==
    IF L = 0 THEN Ok(st, 0, acc)
    ELSE R_read_exact_step(R_read(st, L), L, acc)

R_read_exact(st, L) == R_read_exact_loop(st, L, << >>)

\* R::read_to_end(vec): the default of std, reads until a read returns 0,
\* retries Interrupted; on another error the bytes read so far stay in vec
RECURSIVE R_read_to_end_loop(_, _)
RECURSIVE R_read_to_end_step(_, _)
R_read_to_end_step(r, acc) ==
    IF r.tag = "Err"
    THEN IF r.err.kind = "Interrupted"
         THEN R_read_to_end_loop(r.st, acc)
         ELSE Err(r.st, r.err, acc)
    ELSE IF r.n = 0
         THEN Ok(r.st, Len(acc), acc)
         ELSE R_read_to_end_loop(r.st, acc \o r.out)

R_read_to_end_loop(st, acc) == R_read_to_end_step(R_read(st, Len(content) + 1), acc)

R_read_to_end(st) == R_read_to_end_loop(st, << >>)

\* std::str::from_utf8(bytes).is_ok()
IsCont(b) == b >= 128 /\ b <= 191

RECURSIVE Utf8Valid(_)
Utf8Valid(s) ==
    IF s = << >> THEN TRUE
    ELSE IF s[1] < 128 THEN Utf8Valid(Tail(s))
    ELSE IF s[1] >= 194 /\ s[1] <= 223
    THEN Len(s) >= 2 /\ IsCont(s[2]) /\ Utf8Valid(Drop(s, 2))
    ELSE IF s[1] >= 224 /\ s[1] <= 239
    THEN /\ Len(s) >= 3
         /\ IsCont(s[2]) /\ IsCont(s[3])
         /\ (s[1] = 224 => s[2] >= 160)
         /\ (s[1] = 237 => s[2] <= 159)
         /\ Utf8Valid(Drop(s, 3))
    ELSE IF s[1] >= 240 /\ s[1] <= 244
    THEN /\ Len(s) >= 4
         /\ IsCont(s[2]) /\ IsCont(s[3]) /\ IsCont(s[4])
         /\ (s[1] = 240 => s[2] >= 144)
         /\ (s[1] = 244 => s[2] <= 143)
         /\ Utf8Valid(Drop(s, 4))
    ELSE FALSE

\* the end of a read_to_string: r is the result of the read_to_end; bytes
\* that are not UTF-8 are an InvalidData error and are not appended
Utf8Checked(r) ==
    IF r.tag = "Err" THEN Err(r.st, r.err, << >>)
    ELSE IF ~Utf8Valid(r.out) THEN Err(r.st, NewErr("InvalidData"), << >>)
    ELSE r

\* R::read_to_string(string): the default of std
R_read_to_string(st) == Utf8Checked(R_read_to_end(st))

-----------------------------------------------------------------------------
(* MagicReader *)

\* the copy to the start of buf: self.buf[..data.len()].copy_from_slice(data)
BufWrite_front(b, at, data) ==
    [i \in 1..MAX_MAGIC_BYTES |-> IF i <= Len(data) THEN data[i] ELSE b[i]]

\* self.buf[at..at + data.len()].copy_from_slice(data)
BufWrite(b, at, data) ==
    [i \in 1..MAX_MAGIC_BYTES |->
        IF i > at /\ i <= at + Len(data) THEN data[i - at] ELSE b[i]]

\* do_read without `self.first += n`
do_read_n_stuck(st, n) ==
    Ok(st, n, SubSeq(st.buf, st.first + 1, st.first + n))

\* MagicReader::do_read(buf) copying n bytes
do_read_n(st, n) ==
    Ok([st EXCEPT !.first = @ + n], n, SubSeq(st.buf, st.first + 1, st.first + n))

\* MagicReader::do_read(buf) with buf.len() = L
do_read(st, L) == do_read_n(st, Min(L, st.last - st.first))

\* the end of a call whose bytes from the source went to the start of the
\* caller's buffer, before those copied from buf
Joined_over(d, r) ==
    IF r.tag = "Err" THEN Err(r.st, r.err, d.out \o r.out)
    ELSE Ok(r.st, d.n + r.n, r.out \o d.out)

\* the end of a call that copied d from buf and got r from the source: the
\* error of r, or the two joined
Joined(d, r) ==
    IF r.tag = "Err" THEN Err(r.st, r.err, d.out \o r.out)
    ELSE Ok(r.st, d.n + r.n, d.out \o r.out)

\* the else branch of read: n += self.reader.read(&mut buf[n..])?
read_rest(d, L) == Joined(d, R_read(d.st, L - d.n))

\* <MagicReader as Read>::read
MR_read(st, L) ==
    IF st.first = st.last
    THEN R_read(st, L)
    ELSE read_rest(do_read(st, L), L)

\* <MagicReader as Read>::read_vectored
MR_read_vectored(st, lens) ==
    IF st.first = st.last
    THEN R_read_vectored(st, lens)
    ELSE do_read(st, FirstNonEmpty(lens))

\* read_to_end without `buf.extend(&self.buf[self.first..self.last])`
MR_read_to_end_lossy(st) ==
    Joined(do_read_n(st, 0), R_read_to_end([st EXCEPT !.first = st.last]))

\* read_to_end that clears the lookahead once it has been copied out:
\* self.first = 0; self.last = 0
MR_read_to_end_reset(st) ==
    Joined(do_read_n(st, st.last - st.first),
           R_read_to_end([st EXCEPT !.first = 0, !.last = 0]))

\* <MagicReader as Read>::read_to_end
MR_read_to_end(st) ==
    Joined(do_read_n(st, st.last - st.first),
           R_read_to_end([st EXCEPT !.first = st.last]))

\* read_to_string that validates the bytes of the lookahead on their own
\* before it reads the rest of the source as a string
MR_read_to_string_split(st) ==
    IF st.first # st.last
    THEN IF Utf8Valid(SubSeq(st.buf, st.first + 1, st.last))
         THEN Joined(do_read_n(st, st.last - st.first),
                     R_read_to_string([st EXCEPT !.first = st.last]))
         ELSE Err([st EXCEPT !.first = st.last], NewErr("InvalidData"), << >>)
    ELSE R_read_to_string(st)

\* <MagicReader as Read>::read_to_string
MR_read_to_string(st) ==
    IF st.first # st.last
    THEN Utf8Checked(MR_read_to_end(st))
    ELSE R_read_to_string(st)

\* the end of read_exact without `buf = &mut buf[n..]`: the source is asked
\* for the whole length
read_exact_rest_whole(d, L) ==
    [Joined(d, R_read_exact(d.st, L)) EXCEPT !.n = 0]

\* the end of read_exact: self.reader.read_exact(buf)
read_exact_rest(d, L) ==
    [Joined(d, R_read_exact(d.st, L - d.n)) EXCEPT !.n = 0]

\* read_exact that goes to the source without a look at the lookahead
MR_read_exact_source(st, L) == read_exact_rest(Ok(st, 0, << >>), L)

\* <MagicReader as Read>::read_exact
MR_read_exact(st, L) ==
    read_exact_rest(IF st.first # st.last THEN do_read(st, L) ELSE Ok(st, 0, << >>), L)

\* fill_buf that shows the lookahead from its start: &self.buf[..self.last]
MR_fill_buf_whole(st) ==
    IF st.first = st.last
    THEN R_fill_buf(st)
    ELSE Ok(st, st.last, SubSeq(st.buf, 1, st.last))

\* fill_buf without the test of `self.first == self.last`: always the
\* slice of the lookahead, empty once it is drained
MR_fill_buf_lookahead(st) ==
    Ok(st, st.last - st.first, SubSeq(st.buf, st.first + 1, st.last))

\* <MagicReader as BufRead>::fill_buf
MR_fill_buf(st) ==
    IF st.first = st.last
    THEN R_fill_buf(st)
    ELSE Ok(st, st.last - st.first, SubSeq(st.buf, st.first + 1, st.last))

\* consume without the test of `self.first == self.last`: the cursor moves
\* also when the call is handed to the source
MR_consume_both(st, n) ==
    [R_consume(st, n) EXCEPT !.first = @ + n]

\* <MagicReader as BufRead>::consume
MR_consume(st, n) ==
    IF st.first = st.last
    THEN R_consume(st, n)
    ELSE [st EXCEPT !.first = @ + n]

-----------------------------------------------------------------------------
(* Sniffing: define_read_magic!(Read) and define_read_magic!(BufRead) *)

\* the copy into buf without `self.last += n`
Filled_still(st, data) == [st EXCEPT !.buf = BufWrite(@, st.last, data)]

\* self.buf[self.last..][..data.len()] = data; self.last += data.len()
Filled(st, data) ==
    [st EXCEPT !.buf = BufWrite(@, st.last, data), !.last = @ + Len(data)]

\* Ok(&self.buf[..self.last])
MagicOf(st) == Ok(st, st.last, SubSeq(st.buf, 1, st.last))

\* the end of read_magic, Read front-end: r is the result of the read
read_magic_Read_rest(r) ==
    IF r.tag = "Err" THEN r ELSE MagicOf(Filled(r.st, r.out))

\* MagicReader::read_magic, Read front-end
read_magic_Read(st) == read_magic_Read_rest(R_read(st, MAX_MAGIC_BYTES - st.last))

\* MagicReader::read_magic_slow, Read front-end; r is the result of the
\* read of one iteration of the loop
RECURSIVE read_magic_slow_Read(_)
RECURSIVE read_magic_slow_Read_step(_)
\* the loop with `Err(_) => continue`: every error is retried
read_magic_slow_Read_step_retry(r) ==
    IF r.tag = "Err"
    THEN read_magic_slow_Read(r.st)
    ELSE IF r.n = 0
         THEN MagicOf(r.st)
         ELSE IF r.st.last + r.n = MAX_MAGIC_BYTES
              THEN MagicOf(Filled(r.st, r.out))
              ELSE read_magic_slow_Read(Filled(r.st, r.out))

read_magic_slow_Read_step(r) ==
    IF r.tag = "Err"
    THEN IF r.err.kind = "Interrupted"
         THEN read_magic_slow_Read(r.st)
         ELSE r
    ELSE IF r.n = 0
         THEN MagicOf(r.st)
         ELSE IF r.st.last + r.n = MAX_MAGIC_BYTES
              THEN MagicOf(Filled(r.st, r.out))
              ELSE read_magic_slow_Read(Filled(r.st, r.out))

read_magic_slow_Read(st) ==
    read_magic_slow_Read_step(R_read(st, MAX_MAGIC_BYTES - st.last))

\* MagicReader::read_magic, BufRead front-end
read_magic_BufRead(st) == R_fill_buf(st)

\* the body of the loop without self.reader.consume(n)
read_magic_slow_BufRead_copy_keep(r, n) == Filled(r.st, Take(r.out, n))

\* the body of the loop of read_magic_slow, BufRead front-end, once n is
\* known: copy n bytes of the slice and consume them
read_magic_slow_BufRead_copy(r, n) == Filled(R_consume(r.st, n), Take(r.out, n))

\* MagicReader::read_magic_slow, BufRead front-end; r is the result of the
\* fill_buf of one iteration of the loop
RECURSIVE read_magic_slow_BufRead(_)
RECURSIVE read_magic_slow_BufRead_step(_)
read_magic_slow_BufRead_step(r) ==
    IF r.tag = "Err"
    THEN IF r.err.kind = "Interrupted"
         THEN read_magic_slow_BufRead(r.st)
         ELSE r
    ELSE IF Min(Len(r.out), MAX_MAGIC_BYTES - r.st.last) = 0
         THEN MagicOf(r.st)
         ELSE IF r.st.last + Min(Len(r.out), MAX_MAGIC_BYTES - r.st.last)
                    = MAX_MAGIC_BYTES
              THEN MagicOf(read_magic_slow_BufRead_copy(
                       r, Min(Len(r.out), MAX_MAGIC_BYTES - r.st.last)))
              ELSE read_magic_slow_BufRead(read_magic_slow_BufRead_copy(
                       r, Min(Len(r.out), MAX_MAGIC_BYTES - r.st.last)))

read_magic_slow_BufRead(st) == read_magic_slow_BufRead_step(R_fill_buf(st))

read_magic(st) ==
    IF st.fe = "Read" THEN read_magic_Read(st) ELSE read_magic_BufRead(st)

read_magic_slow(st) ==
    IF st.fe = "Read" THEN read_magic_slow_Read(st) ELSE read_magic_slow_BufRead(st)

\* the sniff without the call of read_magic_slow
SniffRest_fast(m) == m

\* the sniff that calls read_magic_slow whatever read_magic returned
SniffRest_slow(m) == IF m.tag = "Err" THEN m ELSE read_magic_slow(m.st)

\* what every user of the sniff does with the result m of read_magic: keep
\* it, or call read_magic_slow when fewer than MAX_MAGIC_BYTES bytes came
SniffRest(m) ==
    IF m.tag = "Err" THEN m
    ELSE IF Len(m.out) >= MAX_MAGIC_BYTES THEN m
    ELSE read_magic_slow(m.st)

\* read_magic()? and then read_magic_slow()?
Sniff(st) == SniffRest(read_magic(st))

-----------------------------------------------------------------------------
(* The detector: the match of InnerDecoder::new *)

\* a pattern that is content with the bytes that exist
IsPrefix_short(p, s) == \A i \in 1..Min(Len(p), Len(s)) : s[i] = p[i]

IsPrefix(p, s) == Len(s) >= Len(p) /\ SubSeq(s, 1, Len(p)) = p

\* the number of bytes the arm for the format f looks at
PatternLen(f) ==
    CASE f = "Xz" -> Len(XzMagic)
      [] f = "Zstd" -> Len(ZstdMagic)
      [] f = "Gz" -> Len(GzMagic)
      [] f = "Bz" -> Len(BzMagic)
      [] f = "Zlib" -> Len(ZlibMagic)

zlib_cm(x) == x % 16

zlib_cinfo(x) == (x \div 16) % 16

\* the arm of the match for the format f without its zlib check sum
Arm_loose(f, magic) ==
    CASE f = "Xz" -> IsPrefix(XzMagic, magic)
      [] f = "Zstd" -> IsPrefix(ZstdMagic, magic)
      [] f = "Gz" -> IsPrefix(GzMagic, magic)
      [] f = "Bz" -> IsPrefix(BzMagic, magic)
      [] f = "Zlib" -> /\ Len(magic) >= 2
                       /\ zlib_cm(magic[1]) = 8
                       /\ zlib_cinfo(magic[1]) <= 7

\* the pattern and guard of the arm of the match for the format f, taken
\* alone
Arm(f, magic) ==
    CASE f = "Xz" -> IsPrefix(XzMagic, magic)
      [] f = "Zstd" -> IsPrefix(ZstdMagic, magic)
      [] f = "Gz" -> IsPrefix(GzMagic, magic)
      [] f = "Bz" -> IsPrefix(BzMagic, magic)
      [] f = "Zlib" -> /\ Len(magic) >= 2
                       /\ zlib_cm(magic[1]) = 8
                       /\ zlib_cinfo(magic[1]) <= 7
                       /\ ((magic[1] * 256 + magic[2]) % 65536) % 31 = 0

\* the match with the zlib check computed in 8 bits
MatchMagic_u8(magic) ==
    IF IsPrefix(XzMagic, magic) THEN "Xz"
    ELSE IF IsPrefix(ZstdMagic, magic) THEN "Zstd"
    ELSE IF IsPrefix(GzMagic, magic) THEN "Gz"
    ELSE IF IsPrefix(BzMagic, magic) THEN "Bz"
    ELSE IF /\ Len(magic) >= 2
            /\ zlib_cm(magic[1]) = 8
            /\ zlib_cinfo(magic[1]) <= 7
            /\ ((magic[1] * 256 + magic[2]) % 256) % 31 = 0 THEN "Zlib"
    ELSE "Unknown"

\* the arm of the match that `magic` takes: the first one, in the order
\* of the source, whose pattern and guard hold
MatchMagic(magic) ==
    IF Arm("Xz", magic) THEN "Xz"
    ELSE IF Arm("Zstd", magic) THEN "Zstd"
    ELSE IF Arm("Gz", magic) THEN "Gz"
    ELSE IF Arm("Bz", magic) THEN "Bz"
    ELSE IF Arm("Zlib", magic) THEN "Zlib"
    ELSE "Unknown"

\* the match without the arm `_ if fail_on_unknown_format`
Matched_lenient(m, fail) ==
    IF m.tag = "Err" THEN [res |-> m, variant |-> "Empty"]
    ELSE IF MatchMagic(m.out) # "Unknown" THEN [res |-> m, variant |-> MatchMagic(m.out)]
    ELSE [res |-> m, variant |-> "Reader"]

\* a match that takes a format only when bytes follow its magic, and
\* treats a bare magic as unknown
Matched_followed(m, fail) ==
    IF m.tag = "Err" THEN [res |-> m, variant |-> "Empty"]
    ELSE IF MatchMagic(m.out) # "Unknown" /\ Len(m.out) > PatternLen(MatchMagic(m.out))
    THEN [res |-> m, variant |-> MatchMagic(m.out)]
    ELSE IF fail
         THEN [res |-> Err(m.st, NewErr("InvalidData"), << >>), variant |-> "Empty"]
         ELSE [res |-> m, variant |-> "Reader"]

\* the match of InnerDecoder::new on the sniffed magic m
Matched(m, fail) ==
    IF m.tag = "Err" THEN [res |-> m, variant |-> "Empty"]
    ELSE IF MatchMagic(m.out) # "Unknown" THEN [res |-> m, variant |-> MatchMagic(m.out)]
    ELSE IF fail
         THEN [res |-> Err(m.st, NewErr("InvalidData"), << >>), variant |-> "Empty"]
         ELSE [res |-> m, variant |-> "Reader"]

\* InnerDecoder::new(reader, fail_on_unknown_format): the result and the
\* variant it builds
InnerDecoder_new(st, fail) == Matched(Sniff(st), fail)

-----------------------------------------------------------------------------
(* AnyDecoder.  d is the record [st, reader, inner]: st the MagicReader    *)
(* (wherever it lives: in `reader`, or inside the engine of `inner`),      *)
(* reader whether the field `reader` is Some, inner the variant of `inner`.*)

Engines == { "Gz", "Bz", "Zlib", "Xz", "Zstd" }

\* detect that leaves self.reader Some
Taken_kept(d, r) ==
    [d |-> [st |-> r.res.st,
            reader |-> TRUE,
            inner |-> IF r.res.tag = "Ok" THEN r.variant ELSE d.inner],
     res |-> r.res,
     sniffed |-> TRUE]

\* self.inner = InnerDecoder::new(r, ..)? for the r taken out of
\* self.reader; r is the result of InnerDecoder::new
Taken(d, r) ==
    [d |-> [st |-> r.res.st,
            reader |-> FALSE,
            inner |-> IF r.res.tag = "Ok" THEN r.variant ELSE d.inner],
     res |-> r.res,
     sniffed |-> TRUE]

\* detect that runs InnerDecoder::new on every call
detect_again(d, fail) == Taken(d, InnerDecoder_new(d.st, fail))

\* detect that applies the flag to a decoder already resolved to Reader
detect_strict_later(d, fail) ==
    IF d.reader
    THEN Taken(d, InnerDecoder_new(d.st, fail))
    ELSE IF fail /\ d.inner = "Reader"
    THEN [d |-> d, res |-> Err(d.st, NewErr("InvalidData"), << >>), sniffed |-> FALSE]
    ELSE [d |-> d, res |-> Ok(d.st, 0, << >>), sniffed |-> FALSE]

\* AnyDecoder::detect
detect(d, fail) ==
    IF d.reader
    THEN Taken(d, InnerDecoder_new(d.st, fail))
    ELSE [d |-> d, res |-> Ok(d.st, 0, << >>), sniffed |-> FALSE]

\* AnyDecoder::get_kind; "Panic" is the unreachable!() arm
get_kind(variant) ==
    IF variant = "Reader" THEN "Verbatim"
    ELSE IF variant = "Empty" THEN "Panic"
    ELSE variant

\* the match of get_ref / get_mut / into_inner: TRUE when it reaches the
\* unreachable!() arm
UnwrapPanics(d) == ~d.reader /\ d.inner = "Empty"

\* the read-shaped methods of MagicReader, by name
MR_op(st, op, arg) ==
    CASE op = "read" -> MR_read(st, arg)
      [] op = "read_vectored" -> MR_read_vectored(st, arg)
      [] op = "read_exact" -> MR_read_exact(st, arg)
      [] op = "read_to_end" -> MR_read_to_end(st)
      [] op = "read_to_string" -> MR_read_to_string(st)

\* the read-shaped methods of std::io::Empty, the placeholder variant
Empty_op(st, op, arg) ==
    IF op = "read_exact" /\ arg > 0
    THEN Err(st, NewErr("UnexpectedEof"), << >>)
    ELSE Ok(st, 0, << >>)

\* fill_buf() and then consume of all of it, f the result of the fill_buf
FillConsumed(f) ==
    IF f.tag = "Err" THEN f ELSE Ok(MR_consume(f.st, f.n), f.n, f.out)

\* what the engine returns after the fetch r
Fetched(r) ==
    IF r.tag = "Err" THEN Err(r.st, r.err, << >>) ELSE [r EXCEPT !.tag = "Engine"]

\* a codec engine serving a read-shaped call: it fetches compressed bytes
\* from the MagicReader it wraps (read on the Read front-end, fill_buf and
\* consume on the BufRead front-end); `out` holds the bytes it fetched, the
\* decoded output is the codec's business
Engine_op(st, op, arg) ==
    Fetched(IF st.fe = "Read"
            THEN MR_read(st, Len(content) + 1)
            ELSE FillConsumed(MR_fill_buf(st)))

\* dispatch_mut!(self.inner, Read::op, arg)
dispatch_mut(st, variant, op, arg) ==
    IF variant = "Reader" THEN MR_op(st, op, arg)
    ELSE IF variant = "Empty" THEN Empty_op(st, op, arg)
    ELSE Engine_op(st, op, arg)

\* the outcome of a call of AnyDecoder: the decoder d after it, the result
\* res, whether it ran InnerDecoder::new, the calls the sniff made on the
\* source, and the Format it returned
Outcome3(d, res, det, k) ==
    [d |-> [d EXCEPT !.st = res.st], res |-> res, sniffed |-> det.sniffed,
     sniffCalls |-> det.res.st.calls, kind |-> k]

\* the call after self.detect()?: det is the result of detect
Dispatched(det, op, arg) ==
    IF det.res.tag = "Err"
    THEN Outcome3(det.d, det.res, det, "None")
    ELSE Outcome3(det.d, dispatch_mut(det.d.st, det.d.inner, op, arg), det, "None")

\* <AnyDecoder as Read>::op: detect()? and then the dispatch
AnyDecoder_op(d, fail, op, arg) == Dispatched(detect(d, fail), op, arg)

\* Ok(self.get_kind()) after self.detect()?
KindOf(det) ==
    IF det.res.tag = "Err" THEN Outcome3(det.d, det.res, det, "None")
    ELSE IF get_kind(det.d.inner) = "Panic"
    THEN Outcome3(det.d, [det.res EXCEPT !.tag = "Panic"], det, "None")
    ELSE Outcome3(det.d, det.res, det, get_kind(det.d.inner))

\* AnyDecoder::kind
AnyDecoder_kind(d, fail) == KindOf(detect(d, fail))

-----------------------------------------------------------------------------
(* The state machine *)

\* the MagicReader and its source at the start of a call; fe is the
\* front-end it was built for
MR == [buf |-> buf, first |-> first, last |-> last, pos |-> pos,
       faults |-> faults, errs |-> errs, calls |-> 0, srcErr |-> NoErr,
       eofSeen |-> FALSE, afterEof |-> FALSE, consumed |-> 0, errAt |-> 0,
       fe |-> frontend]

D == [st |-> MR, reader |-> reader, inner |-> inner]

ReadLens == { 0, 1, MaxReq }

VecLens == { << 0, 2 >>, << MaxReq, 1 >> }

NoRes == [tag |-> "None", n |-> 0, out |-> << >>, err |-> NoErr, calls |-> 0,
          srcErr |-> NoErr, eofSeen |-> FALSE, afterEof |-> FALSE, consumed |-> 0,
          errAt |-> 0, sniffed |-> FALSE, sniffCalls |-> 0, kind |-> "None"]

\* the record kept of a call: r its result, sniffed whether it ran the
\* sniff, sc the calls the sniff made on the source, k the Format returned
Res(r, sniffed, sc, k) ==
    [tag |-> r.tag, n |-> r.n, out |-> r.out, err |-> r.err, calls |-> r.st.calls,
     srcErr |-> r.st.srcErr, eofSeen |-> r.st.eofSeen, afterEof |-> r.st.afterEof,
     consumed |-> r.st.consumed, errAt |-> r.st.errAt, sniffed |-> sniffed,
     sniffCalls |-> sc, kind |-> k]

SetMR(st) ==
    /\ buf' = st.buf
    /\ first' = st.first
    /\ last' = st.last
    /\ pos' = st.pos
    /\ faults' = st.faults
    /\ errs' = st.errs

Static == UNCHANGED << frontend, harness, content, cuts, encoder >>

\* the outcomes the source can be set up to give to its first calls: up to
\* MaxFaults of them, the last one an error
\* the source was not written by an AnyEncoder
NoEncoder == [kind |-> "None", level |-> "Default", sink |-> << >>,
              script |-> << >>, pending |-> << >>, headed |-> FALSE,
              ended |-> FALSE, written |-> << >>, finished |-> FALSE,
              asked |-> "None"]

FaultScriptsUpTo(max) ==
    { << >> } \cup
    UNION { { f \in [1..n -> FaultKinds] : f[n] # "Ok" } : n \in 1..max }

FaultScripts ==
    FaultScriptsUpTo(IF harness = "MagicReader" THEN MaxFaultsMR ELSE MaxFaults)

InitCommon ==
    /\ frontend \in { "Read", "BufRead" }
    /\ cuts \in SUBSET (1..Min(MaxCut, Len(content) - 1))
    /\ faults \in (IF content \in FaultContents THEN FaultScripts ELSE { << >> })
    /\ pos = 0
    /\ errs = 0
    /\ buf = [i \in 1..MAX_MAGIC_BYTES |-> 0]
    /\ first = 0
    /\ last = 0
    /\ inner = "Empty"
    /\ fail_on_unknown_format = FALSE
    /\ alive = TRUE
    /\ delivered = << >>
    /\ lastOp = [name |-> "new", arg |-> 0]
    /\ lastRes = NoRes
    /\ hist = [failed |-> FALSE, sniffs |-> 0, used |-> FALSE, kinds |-> {}]
    /\ encoder = NoEncoder

\* a constructor that runs detect itself
Init_eager ==
    /\ harness = "AnyDecoder"
    /\ content \in Contents
    /\ frontend \in { "Read", "BufRead" }
    /\ cuts \in SUBSET (1..Min(MaxCut, Len(content) - 1))
    /\ \E f \in (IF content \in FaultContents THEN FaultScripts ELSE { << >> }) :
         \E det \in { detect([st |-> [buf |-> [i \in 1..MAX_MAGIC_BYTES |-> 0],
                                      first |-> 0, last |-> 0, pos |-> 0,
                                      faults |-> f, errs |-> 0, calls |-> 0,
                                      srcErr |-> NoErr, eofSeen |-> FALSE,
                                      afterEof |-> FALSE, consumed |-> 0,
                                      errAt |-> 0, fe |-> frontend],
                              reader |-> TRUE, inner |-> "Empty"], FALSE) } :
            /\ pos = det.d.st.pos
            /\ faults = det.d.st.faults
            /\ errs = det.d.st.errs
            /\ buf = det.d.st.buf
            /\ first = det.d.st.first
            /\ last = det.d.st.last
            /\ reader = det.d.reader
            /\ inner = det.d.inner
    /\ fail_on_unknown_format = FALSE
    /\ alive = TRUE
    /\ delivered = << >>
    /\ lastOp = [name |-> "new", arg |-> 0]
    /\ lastRes = NoRes
    /\ hist = [failed |-> FALSE, sniffs |-> 0, used |-> FALSE, kinds |-> {}]
    /\ encoder = NoEncoder

\* AnyDecoder::new(reader)
Init ==
    /\ harness = "AnyDecoder"
    /\ content \in Contents
    /\ reader = TRUE
    /\ InitCommon

\* MagicReader::new(reader)
InitMR ==
    /\ harness = "MagicReader"
    /\ content \in ContentsMR
    /\ reader = FALSE
    /\ InitCommon

\* AnyDecoder::fail_on_unknown_format(value)
FailOnUnknownFormat(value) ==
    /\ harness = "AnyDecoder" /\ alive
    /\ fail_on_unknown_format' = value
    /\ lastOp' = [name |-> "fail_on_unknown_format", arg |-> value]
    /\ lastRes' = [NoRes EXCEPT !.tag = "Ok"]
    /\ UNCHANGED << pos, faults, errs, buf, first, last, reader, inner, alive,
                    delivered, hist >>
    /\ Static

\* the state after a call of AnyDecoder or MagicReader with outcome a
Applied(name, arg, a) ==
    /\ SetMR(a.d.st)
    /\ reader' = a.d.reader
    /\ inner' = a.d.inner
    /\ alive' = (a.res.tag # "Panic")
    /\ delivered' = IF name \notin { "kind", "sniff" } /\ a.res.tag \in { "Ok", "Engine" }
                    THEN delivered \o a.res.out ELSE delivered
    /\ lastOp' = [name |-> name, arg |-> arg]
    /\ lastRes' = Res(a.res, a.sniffed, a.sniffCalls, a.kind)
    /\ hist' = [hist EXCEPT
                  !.failed = @ \/ a.res.tag \in { "Err", "Panic" },
                  !.used = @ \/ name \notin { "kind", "sniff" },
                  !.sniffs = Min(2, @ + (IF a.sniffed THEN 1 ELSE 0)),
                  !.kinds = IF a.kind # "None" THEN @ \cup { a.kind } ELSE @]
    /\ UNCHANGED fail_on_unknown_format
    /\ Static

\* AnyDecoder::kind()
Kind ==
    /\ harness = "AnyDecoder" /\ alive
    /\ Applied("kind", 0, AnyDecoder_kind(D, fail_on_unknown_format))

\* AnyDecoder::get_ref(), get_mut() and into_inner(); into_inner consumes
\* the decoder
Unwrap(name) ==
    /\ harness = "AnyDecoder" /\ alive
    /\ alive' = (name # "into_inner" /\ ~UnwrapPanics(D))
    /\ lastOp' = [name |-> name, arg |-> 0]
    /\ lastRes' = [NoRes EXCEPT !.tag = IF UnwrapPanics(D) THEN "Panic" ELSE "Ok"]
    /\ hist' = [hist EXCEPT !.failed = @ \/ UnwrapPanics(D)]
    /\ UNCHANGED << pos, faults, errs, buf, first, last, reader, inner,
                    fail_on_unknown_format, delivered >>
    /\ Static

\* a call on the bare MagicReader with result r
Bare(d, r, sniffed) ==
    [d |-> [d EXCEPT !.st = r.st], res |-> r, sniffed |-> sniffed,
     sniffCalls |-> IF sniffed THEN r.st.calls ELSE 0, kind |-> "None"]

\* the outcome of a read-shaped call, on the AnyDecoder or on the bare
\* MagicReader
ReadShaped(op, arg) ==
    IF harness = "AnyDecoder"
    THEN AnyDecoder_op(D, fail_on_unknown_format, op, arg)
    ELSE Bare(D, MR_op(MR, op, arg), FALSE)

\* read(buf) with buf.len() = L
Read(L) ==
    /\ alive
    /\ Applied("read", L, ReadShaped("read", L))

\* read_vectored(bufs) with buffers of the lengths lens
ReadVectored(lens) ==
    /\ alive
    /\ Applied("read_vectored", lens, ReadShaped("read_vectored", lens))

\* read_exact(buf) with buf.len() = L
ReadExact(L) ==
    /\ alive
    /\ Applied("read_exact", L, ReadShaped("read_exact", L))

\* read_to_end(vec)
ReadToEnd ==
    /\ alive
    /\ Applied("read_to_end", 0, ReadShaped("read_to_end", 0))

\* read_to_string(string)
ReadToString ==
    /\ alive
    /\ Applied("read_to_string", 0, ReadShaped("read_to_string", 0))

\* the sniff of a bare MagicReader, as new_magic_reader of the tests does
\* it right after MagicReader::new: read_magic and then, when fewer than
\* MAX_MAGIC_BYTES bytes came back, read_magic_slow
MagicSniff ==
    /\ harness = "MagicReader" /\ alive
    /\ ~hist.used /\ hist.sniffs = 0
    /\ Applied("sniff", 0, Bare(D, Sniff(MR), TRUE))

\* the state after fill_buf() returned f and consume(n) was called
Consumed(n, f) ==
    /\ n <= f.n
    /\ Applied("fill_buf", n,
               Bare(D, IF f.tag = "Err" THEN f
                       ELSE Ok(MR_consume(f.st, n), n, Take(f.out, n)), FALSE))

\* fill_buf() and then consume(n) on a bare MagicReader (BufRead front-end)
FillBufConsume(n) ==
    /\ harness = "MagicReader" /\ frontend = "BufRead" /\ alive
    /\ Consumed(n, MR_fill_buf(MR))

Next ==
    \/ \E v \in BOOLEAN : FailOnUnknownFormat(v)
    \/ Kind
    \/ \E name \in { "get_ref", "get_mut", "into_inner" } : Unwrap(name)
    \/ \E L \in ReadLens : Read(L)
    \/ \E lens \in VecLens : ReadVectored(lens)
    \/ \E L \in ReadLens : ReadExact(L)
    \/ ReadToEnd
    \/ ReadToString

Spec == Init /\ [][Next]_vars

NextMR ==
    \/ MagicSniff
    \/ \E L \in ReadLens : Read(L)
    \/ \E lens \in VecLens : ReadVectored(lens)
    \/ \E L \in ReadLens : ReadExact(L)
    \/ ReadToEnd
    \/ ReadToString
    \/ \E n \in 0..MAX_MAGIC_BYTES : FillBufConsume(n)

SpecMR == InitMR /\ [][NextMR]_vars

-----------------------------------------------------------------------------
(* The claims *)

\* the bytes the source has not handed out yet
Unread == SubSeq(content, pos + 1, Len(content))

\* the bytes fetched from the source and not yet delivered: buf[first..last]
Buffered == SubSeq(buf, first + 1, last)

\* the leading bytes of the content match no rule of the detector
NoRuleMatches == MatchMagic(Take(content, MAX_MAGIC_BYTES)) = "Unknown"

\* the source has returned no error so far and is set up to return none
SourceSound == errs = 0 /\ faults = << >>

\* the variant InnerDecoder::new builds for the Format f
VariantOf(f) == IF f = "Unknown" THEN "Reader" ELSE f

\* C1: lookahead exactness of MagicReader.  As long as every call so far
\* succeeded, the bytes delivered, then buf[first..last], then the bytes the
\* source still holds, are the original content, sniffed or not.
C1_LookaheadExact ==
    ~hist.failed => delivered \o Buffered \o Unread = content

\* C1 witness: a sniffed MagicReader over the longest content was read to
\* its end by a read that took bytes from buf and from the source
C1_Witness ==
    /\ harness = "MagicReader" /\ ~hist.failed /\ hist.sniffs = 1
    /\ Len(content) = MaxLen /\ delivered = content
    /\ lastOp.name = "read" /\ lastRes.calls = 1 /\ lastRes.n > 1
    /\ first = MAX_MAGIC_BYTES

\* C2: verbatim pass-through.  For a sound source whose leading bytes match
\* no rule and a decoder whose flag is false, the call that detects ends
\* with the variant Reader, kind() returns Verbatim, and a read_to_end (or a
\* read that reports end of stream) leaves the delivered bytes equal to the
\* content, on both front-ends.
C2_VerbatimPassThrough ==
    (NoRuleMatches /\ SourceSound) =>
        /\ (lastRes.sniffed /\ ~fail_on_unknown_format) => inner = "Reader"
        /\ (lastOp.name = "kind" /\ lastRes.sniffed /\ ~fail_on_unknown_format)
               => lastRes.tag = "Ok" /\ lastRes.kind = "Verbatim"
        /\ (lastOp.name = "read_to_end" /\ lastRes.sniffed /\ ~fail_on_unknown_format)
               => /\ lastRes.tag = "Ok"
                  /\ lastRes.out = content
                  /\ lastRes.n = Len(content)
        /\ (/\ ~hist.failed
            /\ \/ lastOp.name = "read_to_end"
               \/ lastOp.name = "read" /\ lastOp.arg > 0 /\ lastRes.n = 0)
               => delivered = content

\* C2 witness: "Hello" on the BufRead front-end, detected and read by one
\* read_to_end
C2_Witness ==
    /\ content = Hello /\ frontend = "BufRead" /\ SourceSound
    /\ lastOp.name = "read_to_end" /\ lastRes.sniffed
    /\ lastRes.out = Hello /\ inner = "Reader"

\* C3: strict policy.  When the call that detects runs with the flag true
\* on a source that matches no rule (and that returned no error), it
\* returns an InvalidData error and delivers nothing; with the flag false
\* the same source resolves to the variant Reader and kind() succeeds.
C3_StrictPolicy ==
    (lastRes.sniffed /\ NoRuleMatches /\ errs = 0) =>
        /\ fail_on_unknown_format =>
              /\ lastRes.tag = "Err"
              /\ lastRes.err = NewErr("InvalidData")
              /\ lastRes.out = << >>
              /\ delivered = << >>
        /\ ~fail_on_unknown_format =>
              /\ inner = "Reader"
              /\ lastOp.name = "kind" => lastRes.tag = "Ok" /\ lastRes.kind = "Verbatim"

\* C3 witness: a read of "Hello" with the flag set fails
C3_Witness ==
    /\ content = Hello /\ fail_on_unknown_format
    /\ lastOp.name = "read" /\ lastRes.sniffed
    /\ lastRes.err = NewErr("InvalidData")

\* C4: magic stability.  The variant a successful detection selects is the
\* one the detector gives for the first min(6, length) bytes of the
\* content, whatever the fetch boundaries and the front-end.
C4_MagicStability ==
    inner # "Empty" =>
        inner = VariantOf(MatchMagic(Take(content, MAX_MAGIC_BYTES)))

\* C4 witness: the xz magic, fetched in three pieces, is detected
C4_Witness ==
    /\ content = XzMagic /\ cuts = { 1, 2 } /\ inner = "Xz"
    /\ lastRes.sniffed /\ lastRes.sniffCalls >= 3

\* C5: idempotent detection.  InnerDecoder::new runs at most once; every
\* kind() returns the same Format; a call that does not run the detection
\* makes no sniffing fetch, and such a kind() makes no call on the source.
C5_IdempotentDetection ==
    /\ hist.sniffs <= 1
    /\ Cardinality(hist.kinds) <= 1
    /\ ~lastRes.sniffed => lastRes.sniffCalls = 0
    /\ (lastOp.name = "kind" /\ ~lastRes.sniffed) => lastRes.calls = 0
    /\ (lastOp.name = "kind" /\ lastRes.tag = "Ok") => lastRes.kind = get_kind(inner)

\* C5 witness: kind() after the detection and after reads returns the
\* Format without a fetch
C5_Witness ==
    /\ lastOp.name = "kind" /\ lastRes.tag = "Ok" /\ ~lastRes.sniffed
    /\ hist.sniffs = 1 /\ hist.used /\ pos > 0 /\ lastRes.kind = "Gz"

\* C6: one-way transition.  In every step, a decoder whose reader is gone
\* keeps it gone, and a variant other than the placeholder never changes.
C6_OneWay ==
    [][ /\ (~reader => ~reader')
        /\ (inner # "Empty" => inner' = inner) ]_vars

\* C6 witness: a detected decoder that served a read after the call that
\* detected
C6_Witness ==
    /\ ~reader /\ inner \in Engines
    /\ lastOp.name = "read" /\ ~lastRes.sniffed /\ lastRes.tag = "Engine"

\* C7: two-state invariant.  The decoder is Undetected (reader Some, inner
\* the placeholder) or Detected (reader None, inner a real variant).
C7_TwoStates ==
    \/ reader /\ inner = "Empty"
    \/ ~reader /\ inner # "Empty"

\* C7 witness: a strict detection of "Hello" failed and left the decoder
\* without reader and with the placeholder
C7_Witness ==
    /\ content = Hello /\ faults = << >> /\ errs = 0
    /\ lastOp.name = "kind" /\ lastRes.err = NewErr("InvalidData")
    /\ ~reader /\ inner = "Empty"

\* C8: no operation of AnyDecoder reaches the unreachable!() arm.
C8_NoPanic == lastRes.tag # "Panic"

\* C8 witness: get_ref() panics on a decoder whose strict detection of
\* "Hello" failed
C8_Witness ==
    /\ content = Hello /\ faults = << >> /\ errs = 0
    /\ lastOp.name = "get_ref" /\ lastRes.tag = "Panic"

\* C9: an Interrupted met by the sniff is not surfaced: a call whose
\* detection failed does not return an error of kind Interrupted.
C9_InterruptedNotSurfaced ==
    (lastRes.sniffed /\ lastRes.tag = "Err" /\ inner = "Empty")
        => lastRes.err.kind # "Interrupted"

\* C9 witness: kind() returns the Interrupted that the first fetch of the
\* sniff met, on the BufRead front-end
C9_Witness ==
    /\ frontend = "BufRead" /\ lastOp.name = "kind" /\ lastRes.sniffed
    /\ lastRes.err.kind = "Interrupted" /\ lastRes.calls = 1

\* C10: errors of the source are returned unchanged and the failed call is
\* not repeated.  A call during which the source returned an error other
\* than Interrupted returns that error, and so does a read or
\* read_vectored of the MagicReader for any error; the failing call is the
\* last one made on the source.
C10_ErrorsUnchanged ==
    /\ (lastRes.srcErr # NoErr /\ lastRes.srcErr.kind # "Interrupted") =>
          /\ lastRes.tag = "Err"
          /\ lastRes.err = lastRes.srcErr
          /\ lastRes.calls = lastRes.errAt
    /\ (/\ lastRes.srcErr # NoErr /\ ~lastRes.sniffed /\ inner = "Reader"
        /\ lastOp.name \in { "read", "read_vectored" }) =>
          /\ lastRes.tag = "Err"
          /\ lastRes.err = lastRes.srcErr
          /\ lastRes.calls = lastRes.errAt

\* C10 witness: the second fetch of the sniff failed and the call that
\* detects returned that error
C10_Witness ==
    /\ lastRes.sniffed /\ lastRes.srcErr.kind = "Other"
    /\ lastRes.err = lastRes.srcErr /\ lastRes.calls = 2

\* C11: peekable front-end, fatal error during the sniff.  When the sniff
\* of a BufRead source ends with an error other than Interrupted, no byte
\* has been passed to the consume() of the source during that sniff.
C11_NoConsumeBeforeFatal ==
    (/\ frontend = "BufRead" /\ lastOp.name \in { "sniff", "kind" }
     /\ lastRes.sniffed /\ lastRes.tag = "Err" /\ lastRes.err.kind = "Other")
        => lastRes.consumed = 0

\* C11 witness: the third fill_buf of the sniff failed after the second
\* one's bytes were copied and consumed
C11_Witness ==
    /\ frontend = "BufRead" /\ lastOp.name = "sniff"
    /\ lastRes.err.kind = "Other" /\ lastRes.calls = 3
    /\ lastRes.consumed = 1 /\ last = 1 /\ pos = 1

\* MagicReader::into_inner (and get_mut): the source itself, without buf;
\* the bytes that can still be read from it
MR_into_inner(st) == SubSeq(content, st.pos + 1, Len(content))

\* C12: unwrapping keeps the sniffed bytes.  After into_inner() or
\* get_mut() on a decoder that resolved to Verbatim and whose calls all
\* succeeded, the bytes delivered followed by the bytes readable from the
\* returned source are the original content.
C12_UnwrapKeepsSniffed ==
    (/\ lastOp.name \in { "into_inner", "get_mut" } /\ lastRes.tag = "Ok"
     /\ inner = "Reader" /\ ~hist.failed)
        => delivered \o MR_into_inner(MR) = content

\* C12 witness: "Hello" was sniffed into buf, one byte of it was delivered,
\* and into_inner() returns a source at its end
C12_Witness ==
    /\ content = Hello /\ lastOp.name = "into_inner" /\ lastRes.tag = "Ok"
    /\ inner = "Reader" /\ ~hist.failed
    /\ delivered = << 72 >> /\ first = 1 /\ last = 5 /\ MR_into_inner(MR) = << >>

-----------------------------------------------------------------------------
(* The detector on its own: an AnyDecoder over prefixes, near misses and   *)
(* extensions of the magics, asked for its kind()                          *)

\* bytes put in place of one byte of a magic
AltBytes == { 0, 8, 120, 255 }

\* bytes that follow a complete or cut magic
Tails == { << >>, << 0 >>, Counting(MaxPayload) }

\* m with its i-th byte replaced by b
Replaced(m, i, b) == [j \in 1..Len(m) |-> IF j = i THEN b ELSE m[j]]

\* the magics, the magics with one byte replaced, cut at every length and
\* followed by more bytes
MagicLike ==
    { Take(m, n) \o t : m \in Magics, n \in 0..MAX_MAGIC_BYTES, t \in Tails }
    \cup { Take(Replaced(m, i, b), n) :
              m \in Magics, i \in 1..MAX_MAGIC_BYTES, b \in AltBytes,
              n \in 1..MAX_MAGIC_BYTES }

\* first bytes of a zlib header and near misses of it (cm, cinfo)
CmfBytes == { 8, 24, 104, 120, 121, 136, 248 }

\* second bytes of a zlib header: the ones that pass the check for a byte
\* of CmfBytes, their neighbours, and the ends of the range
FlgBytes == { 0, 1, 29, 30, 31, 94, 155, 156, 157, 218, 254, 255 }

ZlibLike == { << c, f >> \o t : c \in CmfBytes, f \in FlgBytes, t \in Tails }

DetectInputs == MagicLike \cup ZlibLike

\* AnyDecoder::new over a source that holds one of the DetectInputs
InitDetect ==
    /\ harness = "AnyDecoder"
    /\ content \in DetectInputs
    /\ reader = TRUE
    /\ InitCommon

NextDetect ==
    \/ \E v \in BOOLEAN : FailOnUnknownFormat(v)
    \/ Kind

SpecDetect == InitDetect /\ [][NextDetect]_vars

\* the rows of the detector table: the format and the bytes of its magic
TableRows ==
    << [format |-> "Xz", magic |-> << 253, 55, 122, 88, 90, 0 >>],
       [format |-> "Zstd", magic |-> << 40, 181, 47, 253 >>],
       [format |-> "Gz", magic |-> << 31, 139, 8 >>],
       [format |-> "Bz", magic |-> << 66, 90, 104 >>],
       [format |-> "Zlib", magic |-> << >>] >>

\* the zlib rule on the unbounded integers
ZlibRule(p) ==
    /\ Len(p) >= 2
    /\ p[1] % 16 = 8
    /\ (p[1] \div 16) % 16 <= 7
    /\ (256 * p[1] + p[2]) % 31 = 0

\* row i of the table matches the bytes p
RowMatches(i, p) ==
    IF TableRows[i].format = "Zlib" THEN ZlibRule(p)
    ELSE IsPrefix(TableRows[i].magic, p)

\* the format of the first row that matches p, or Unknown
FirstRow(p) ==
    IF \A i \in 1..Len(TableRows) : ~RowMatches(i, p) THEN "Unknown"
    ELSE TableRows[CHOOSE i \in 1..Len(TableRows) :
                      RowMatches(i, p) /\ \A j \in 1..(i - 1) : ~RowMatches(j, p)].format

\* the call under way ran the detection on a source that returned no error
DetectedNow == lastRes.sniffed /\ errs = 0

\* C13: detector table.  The variant InnerDecoder::new chooses is the one
\* of the first row of the table that matches the bytes of the stream; the
\* strict error is returned exactly when no row matches.
C13_DetectorTable ==
    DetectedNow =>
        /\ lastRes.tag = "Ok" =>
              /\ inner = VariantOf(FirstRow(content))
              /\ lastRes.kind = get_kind(VariantOf(FirstRow(content)))
        /\ lastRes.tag = "Err" =>
              /\ FirstRow(content) = "Unknown"
              /\ fail_on_unknown_format
              /\ inner = "Empty"
        /\ (FirstRow(content) = "Unknown" /\ fail_on_unknown_format)
              => lastRes.tag = "Err"

\* C13 witness: the zlib header 78 9C followed by more bytes is detected
\* as Zlib on the BufRead front-end
C13_Witness ==
    /\ content = << 120, 156 >> \o Counting(MaxPayload) /\ frontend = "BufRead"
    /\ lastOp.name = "kind" /\ lastRes.sniffed /\ lastRes.kind = "Zlib"

\* the orders in which the five arms can be written
Orders ==
    { o \in [1..Cardinality(Engines) -> Engines] :
         \A i, j \in 1..Cardinality(Engines) : i # j => o[i] # o[j] }

\* the match with its arms in the order o
MatchIn(o, magic) ==
    IF \A i \in 1..Len(o) : ~Arm(o[i], magic) THEN "Unknown"
    ELSE o[CHOOSE i \in 1..Len(o) :
              Arm(o[i], magic) /\ \A j \in 1..(i - 1) : ~Arm(o[j], magic)]

\* C14: the rules are pairwise disjoint.  At most one arm matches the
\* bytes of the stream, and with the arms in any order the detection that
\* just succeeded would have built the same variant.
C14_RulesDisjoint ==
    /\ Cardinality({ f \in Engines : Arm(f, content) }) <= 1
    /\ (DetectedNow /\ lastRes.tag = "Ok") =>
          \A o \in Orders : inner = VariantOf(MatchIn(o, content))

\* C14 witness: the zstd magic, whose first byte passes the cm and cinfo
\* tests of the zlib arm, is detected as Zstd
C14_Witness ==
    /\ content = ZstdMagic /\ lastOp.name = "kind" /\ lastRes.sniffed
    /\ lastRes.kind = "Zstd" /\ ~Arm("Zlib", content)
    /\ zlib_cm(content[1]) = 8 /\ zlib_cinfo(content[1]) <= 7

\* C15: short prefixes.  For a stream of fewer than 6 bytes the detection
\* tries every rule on the bytes that exist: an arm that matches them is
\* taken, an arm that needs more bytes than the stream has is never taken,
\* and the empty stream matches none.
C15_ShortPrefixes ==
    (DetectedNow /\ Len(content) < MAX_MAGIC_BYTES) =>
        /\ \A f \in Engines :
              /\ Arm(f, content) => lastRes.tag = "Ok" /\ inner = f
              /\ inner = f => PatternLen(f) <= Len(content)
        /\ content = << 31, 139, 8 >> => inner = "Gz"
        /\ content = << 253, 55, 122, 88, 90 >> => inner # "Xz"
        /\ Len(content) = 1 => inner # "Zlib"
        /\ Len(content) = 0 => inner = IF fail_on_unknown_format THEN "Empty" ELSE "Reader"

\* C15 witness: the first five bytes of the xz magic, fetched in three
\* pieces, resolve to the variant Reader
C15_Witness ==
    /\ content = << 253, 55, 122, 88, 90 >> /\ cuts = { 1, 2 }
    /\ lastRes.sniffed /\ lastRes.tag = "Ok" /\ inner = "Reader"

\* C16: boundary, no over-read.  For a sound source of 0, 1, 2 or 5 bytes
\* that matches no rule, kind() resolves to Verbatim (or to the strict
\* error) and, once the source has reported end of stream during the
\* sniff, the sniff makes no further call on it.
C16_NoOverRead ==
    (/\ lastOp.name = "kind" /\ lastRes.sniffed /\ SourceSound
     /\ NoRuleMatches /\ Len(content) \in { 0, 1, 2, 5 }) =>
        /\ IF fail_on_unknown_format
           THEN lastRes.err = NewErr("InvalidData")
           ELSE lastRes.tag = "Ok" /\ lastRes.kind = "Verbatim"
        /\ ~lastRes.afterEof

\* C16 witness: kind() on an empty source made two calls on it, the second
\* after the first had reported end of stream
C16_Witness ==
    /\ content = << >> /\ faults = << >> /\ errs = 0
    /\ lastOp.name = "kind" /\ lastRes.sniffed /\ lastRes.kind = "Verbatim"
    /\ lastRes.calls = 2 /\ lastRes.afterEof

-----------------------------------------------------------------------------
(* AnyEncoder, and the round trip through an AnyDecoder.  The codec       *)
(* engines are opaque: an engine encoder emits the magic of its format    *)
(* followed by the bytes written, an engine decoder wants that magic and   *)
(* returns what follows it.                                                *)

MaxWrite == 4      \* most bytes written to an encoder

EncoderKinds == { "Write" } \cup Engines

\* Compression: Fast, Default, Best, and Level(1) and Level(9), which every
\* engine accepts
Compressions == { "Fast", "Default", "Best", "Level1", "Level9" }

\* the second byte of the zlib header for a compression level
ZlibFlg(c) ==
    IF c \in { "Fast", "Level1" } THEN 1
    ELSE IF c = "Default" THEN 156
    ELSE 218

\* the magic an engine encoder emits first
Header(kind, c) ==
    CASE kind = "Xz" -> XzMagic
      [] kind = "Zstd" -> ZstdMagic
      [] kind = "Gz" -> GzMagic
      [] kind = "Bz" -> BzMagic
      [] kind = "Zlib" -> << 120, ZlibFlg(c) >>

\* the end marker an engine encoder emits last: the checksum and end of
\* stream of the codec, one byte here
Trailer == << 255 >>

\* a writer W: the bytes it holds and the outcomes of its next calls
Writer(script) == [sink |-> << >>, script |-> script]

\* AnyEncoder::new(writer, encoder, compression): the variant of the kind
\* asked for, around the writer
AnyEncoder_new(writer, kind, c) ==
    [kind |-> kind, level |-> c, sink |-> writer.sink, script |-> writer.script,
     pending |-> << >>, headed |-> FALSE, ended |-> FALSE,
     written |-> << >>, finished |-> FALSE, asked |-> kind]

\* kind() whose Zlib arm returns the kind of the other flate2 variant
AnyEncoder_kind_of_flate2(e) == IF e.kind = "Zlib" THEN "Gz" ELSE e.kind

\* AnyEncoder::kind()
AnyEncoder_kind_of(e) == e.kind

\* the result of a call on the encoder: the encoder after it, Ok or Err,
\* the count returned, the error
WRes(e, tag, n, err) == [e |-> e, tag |-> tag, n |-> n, err |-> err]

\* the outcome of the next call on the writer W; a writer without queued
\* outcomes accepts everything
SinkOutcome(e) == IF e.script = << >> THEN "All" ELSE Head(e.script)

\* one call of a method of W
SinkCalled(e) == [e EXCEPT !.script = IF @ = << >> THEN @ ELSE Tail(@)]

\* the number of bytes W accepts of L under outcome o
Accepts(o, L) ==
    IF o = "All" THEN L ELSE IF o = "One" THEN Min(1, L) ELSE 0

\* W::write(buf) under the outcome o
W_write_as(e, b, o) ==
    IF o \in { "Interrupted", "Other" }
    THEN WRes(SinkCalled(e), "Err", 0, NewErr(o))
    ELSE WRes([SinkCalled(e) EXCEPT !.sink = @ \o Take(b, Accepts(o, Len(b)))],
              "Ok", Accepts(o, Len(b)), NoErr)

\* W::write(buf)
W_write(e, b) == W_write_as(e, b, SinkOutcome(e))

\* W::write_all(buf): the default of std, a loop of writes that retries
\* Interrupted and fails with WriteZero when a write accepts nothing; r is
\* the result of the write of one iteration
RECURSIVE W_write_all(_, _)
W_write_all_step(r, b) ==
    IF r.tag = "Err"
    THEN IF r.err.kind = "Interrupted" THEN W_write_all(r.e, b) ELSE r
    ELSE IF r.n = 0 THEN WRes(r.e, "Err", 0, NewErr("WriteZero"))
    ELSE W_write_all(r.e, Drop(b, r.n))

W_write_all(e, b) ==
    IF b = << >> THEN WRes(e, "Ok", 0, NoErr)
    ELSE W_write_all_step(W_write(e, b), b)

\* the first buffer of bufs that is not empty, or the empty buffer
FirstBuf(bufs) ==
    IF \A i \in 1..Len(bufs) : bufs[i] = << >> THEN << >>
    ELSE bufs[CHOOSE i \in 1..Len(bufs) :
                  bufs[i] # << >> /\ \A j \in 1..(i - 1) : bufs[j] = << >>]

\* W::flush()
W_flush_as(e, o) ==
    IF o \in { "Interrupted", "Other" }
    THEN WRes(SinkCalled(e), "Err", 0, NewErr(o))
    ELSE WRes(SinkCalled(e), "Ok", 0, NoErr)

\* a dispatch whose write_all arm calls write once
W_op_once(e, op, arg) ==
    CASE op = "write" -> W_write(e, arg)
      [] op = "write_vectored" -> W_write(e, FirstBuf(arg))
      [] op = "write_all" -> W_write(e, arg)
      [] op = "write_fmt" -> W_write_all(e, arg)
      [] op = "flush" -> W_flush_as(e, SinkOutcome(e))

\* the write-shaped methods of the writer W, by name: write_vectored and
\* write_fmt are the defaults of std, a write of the first buffer that is
\* not empty and a write_all of the formatted bytes
W_op(e, op, arg) ==
    CASE op = "write" -> W_write(e, arg)
      [] op = "write_vectored" -> W_write(e, FirstBuf(arg))
      [] op = "write_all" -> W_write_all(e, arg)
      [] op = "write_fmt" -> W_write_all(e, arg)
      [] op = "flush" -> W_flush_as(e, SinkOutcome(e))

\* the bytes an engine has taken and not yet passed to the writer, after
\* the magic of its format when that is still to come
Unemitted(e) == (IF e.headed THEN << >> ELSE Header(e.kind, e.level)) \o e.pending

\* the engine after it passed Unemitted and `more` to the writer with
\* result r
Emitted(e, r, end) ==
    IF r.tag = "Err" THEN r
    ELSE WRes([r.e EXCEPT !.pending = << >>, !.headed = TRUE, !.ended = end],
              "Ok", 0, NoErr)

\* the write-shaped methods of an engine encoder, by name: it takes the
\* bytes it is given and passes what it holds to the writer on flush
EngineEnc_op(e, op, arg) ==
    CASE op = "write" -> WRes([e EXCEPT !.pending = @ \o arg], "Ok", Len(arg), NoErr)
      [] op = "write_vectored" ->
           WRes([e EXCEPT !.pending = @ \o FirstBuf(arg)], "Ok", Len(FirstBuf(arg)), NoErr)
      [] op = "write_all" -> WRes([e EXCEPT !.pending = @ \o arg], "Ok", 0, NoErr)
      [] op = "write_fmt" -> WRes([e EXCEPT !.pending = @ \o arg], "Ok", 0, NoErr)
      [] op = "flush" -> Emitted(e, W_write_all(e, Unemitted(e)), FALSE)

\* dispatch_mut!(self, Write::op, arg) of the encoder
Encoder_dispatch_mut(e, op, arg) ==
    IF e.kind = "Write" THEN W_op(e, op, arg) ELSE EngineEnc_op(e, op, arg)

\* the bytes a call reported as accepted: all of them for write_all and
\* write_fmt, the first n for write and write_vectored
Accepted(op, arg, r) ==
    IF r.tag = "Err" THEN << >>
    ELSE CASE op = "write" -> Take(arg, r.n)
           [] op = "write_vectored" -> Take(FirstBuf(arg), r.n)
           [] op = "write_all" -> arg
           [] op = "write_fmt" -> arg
           [] op = "flush" -> << >>

\* a write-shaped call on the AnyEncoder, with the bytes it reported as
\* accepted added to `written`
Reported(op, arg, r) ==
    WRes([r.e EXCEPT !.written = @ \o Accepted(op, arg, r)], r.tag, r.n, r.err)

AnyEncoder_op(e, op, arg) == Reported(op, arg, Encoder_dispatch_mut(e, op, arg))

\* <AnyEncoder as Write>::write_all(buf)
AnyEncoder_write_all(e, b) == AnyEncoder_op(e, "write_all", b).e

\* a finish that passes on what the engine holds without the end marker
Engine_finish_open(e) ==
    Emitted(e, W_write_all(e, Unemitted(e)), TRUE)

\* the engine's finish: what it holds and its end marker go to the writer
Engine_finish(e) ==
    Emitted(e, W_write_all(e, Unemitted(e) \o Trailer), TRUE)

\* AnyEncoder::finish() with its result
AnyEncoder_finished(e) ==
    IF e.kind = "Write" THEN WRes(e, "Ok", 0, NoErr) ELSE Engine_finish(e)

\* the encoder record after finish() returned r
Consumed_by_finish(r) == [r.e EXCEPT !.finished = r.tag = "Ok"]

\* AnyEncoder::finish(): the writer, after an engine has emitted its stream
AnyEncoder_finish(e) == Consumed_by_finish(AnyEncoder_finished(e))

\* an engine draining the MagicReader through fill_buf and consume; f is
\* the result of the fill_buf of one iteration
RECURSIVE MR_drain(_, _)
RECURSIVE MR_drain_step(_, _)
MR_drain_step(f, acc) ==
    IF f.tag = "Err" THEN Err(f.st, f.err, acc)
    ELSE IF f.n = 0 THEN Ok(f.st, Len(acc), acc)
    ELSE MR_drain(MR_consume(f.st, f.n), acc \o f.out)

MR_drain(st, acc) == MR_drain_step(MR_fill_buf(st), acc)

\* the stream `bytes` is one an engine encoder of `variant` finished: its
\* magic, the payload, the end marker
WellFormed(variant, bytes) ==
    /\ Arm(variant, bytes)
    /\ Len(bytes) >= PatternLen(variant) + Len(Trailer)
    /\ Drop(bytes, Len(bytes) - Len(Trailer)) = Trailer

\* the payload of a well-formed stream
Payload(variant, bytes) ==
    SubSeq(bytes, PatternLen(variant) + 1, Len(bytes) - Len(Trailer))

\* what the engine decoder of `variant` makes of the stream r it fetched:
\* the payload, or the codec's own error for a stream that is truncated or
\* corrupt
EngineDecoded(variant, r) ==
    IF r.tag = "Err" THEN Err(r.st, r.err, << >>)
    ELSE IF ~WellFormed(variant, r.out) THEN Err(r.st, NewErr("CorruptStream"), << >>)
    ELSE Ok(r.st, Len(Payload(variant, r.out)), Payload(variant, r.out))

\* read_to_end of an engine decoder over the MagicReader; an engine that
\* an earlier read_to_end took to the end of its stream returns no bytes
Engine_read_to_end(st, variant) ==
    IF hist.used
    THEN Ok(st, 0, << >>)
    ELSE EngineDecoded(variant,
                       IF st.fe = "Read" THEN MR_read_to_end(st)
                       ELSE MR_drain(st, << >>))

\* read_to_end after self.detect()?, with the engines decoding
DecodedAll(det) ==
    IF det.res.tag = "Err"
    THEN Outcome3(det.d, det.res, det, "None")
    ELSE IF det.d.inner \in Engines
    THEN Outcome3(det.d, Engine_read_to_end(det.d.st, det.d.inner), det, "None")
    ELSE Outcome3(det.d, dispatch_mut(det.d.st, det.d.inner, "read_to_end", 0), det, "None")

\* the chunks passed to write_all
WriteChunks == { << >>, << 7 >>, << 31, 139, 8 >>, << 120, 156 >>, Counting(MaxWrite) }

\* AnyEncoder::new(VecDeque::new(), kind, compression)
InitRT ==
    /\ harness = "AnyEncoder"
    /\ \E k \in EncoderKinds, c \in Compressions : encoder = AnyEncoder_new(Writer(<< >>), k, c)
    /\ frontend = "Read"
    /\ content = << >>
    /\ cuts = {}
    /\ faults = << >>
    /\ pos = 0
    /\ errs = 0
    /\ buf = [i \in 1..MAX_MAGIC_BYTES |-> 0]
    /\ first = 0
    /\ last = 0
    /\ reader = FALSE
    /\ inner = "Empty"
    /\ fail_on_unknown_format = FALSE
    /\ alive = TRUE
    /\ delivered = << >>
    /\ lastOp = [name |-> "new", arg |-> 0]
    /\ lastRes = NoRes
    /\ hist = [failed |-> FALSE, sniffs |-> 0, used |-> FALSE, kinds |-> {}]

\* write_all(b) on the encoder
WriteAll(b) ==
    /\ harness = "AnyEncoder"
    /\ Len(encoder.written) + Len(b) <= MaxWrite
    /\ encoder' = AnyEncoder_write_all(encoder, b)
    /\ lastOp' = [name |-> "write_all", arg |-> b]
    /\ lastRes' = [NoRes EXCEPT !.tag = "Ok"]
    /\ UNCHANGED << frontend, harness, content, cuts, pos, faults, errs, buf, first,
                    last, reader, inner, fail_on_unknown_format, alive, delivered,
                    hist >>

\* finish() on the encoder and AnyDecoder::new over the writer it returns,
\* read through the front-end fe in chunks that end at the offsets c
Finish(fe, c) ==
    /\ harness = "AnyEncoder"
    /\ encoder' = AnyEncoder_finish(encoder)
    /\ content' = AnyEncoder_finish(encoder).sink
    /\ harness' = "AnyDecoder"
    /\ frontend' = fe
    /\ cuts' = c
    /\ reader' = TRUE
    /\ lastOp' = [name |-> "finish", arg |-> 0]
    /\ lastRes' = [NoRes EXCEPT !.tag = "Ok"]
    /\ UNCHANGED << pos, faults, errs, buf, first, last, inner,
                    fail_on_unknown_format, alive, delivered, hist >>

\* read_to_end(vec) on the decoder, decoded by the engine
ReadToEndDecoded ==
    /\ harness = "AnyDecoder" /\ alive
    /\ Applied("read_to_end", 0, DecodedAll(detect(D, fail_on_unknown_format)))

NextRT ==
    \/ \E b \in WriteChunks : WriteAll(b)
    \/ \E fe \in { "Read", "BufRead" }, c \in SUBSET (1..MaxCut) : Finish(fe, c)
    \/ Kind
    \/ ReadToEndDecoded

SpecRT == InitRT /\ [][NextRT]_vars

ReadCalls ==
    { << "read", L >> : L \in ReadLens }
    \cup { << "read_vectored", lens >> : lens \in VecLens }
    \cup { << "read_exact", L >> : L \in ReadLens }
    \cup { << "read_to_end", 0 >>, << "read_to_string", 0 >> }

\* kind() and every read-shaped call give the same outcome with the flag
\* true and with the flag false
FlagIrrelevant ==
    /\ AnyDecoder_kind(D, TRUE) = AnyDecoder_kind(D, FALSE)
    /\ \A c \in ReadCalls :
          AnyDecoder_op(D, TRUE, c[1], c[2]) = AnyDecoder_op(D, FALSE, c[1], c[2])

\* C18: fail_on_unknown_format(v) after the detection has no effect.  The
\* call changes nothing but the flag, and after such a call on a decoder
\* whose reader has been taken the outcome of kind() and of every
\* read-shaped call does not depend on the flag.
C18_FlagAfterDetection ==
    /\ []((lastOp.name = "fail_on_unknown_format" /\ ~reader) => FlagIrrelevant)
    /\ [][ lastOp'.name = "fail_on_unknown_format" =>
             UNCHANGED << reader, inner, buf, first, last, pos, faults, errs,
                          delivered, alive, hist >> ]_vars

\* C18 witness: a decoder resolved to Reader whose flag was then set to
\* true still serves a read
C18_Witness ==
    /\ ~reader /\ inner = "Reader" /\ fail_on_unknown_format /\ ~hist.failed
    /\ lastOp.name = "read" /\ ~lastRes.sniffed /\ lastRes.tag = "Ok" /\ lastRes.n > 0

-----------------------------------------------------------------------------
(* Lazy detection *)

\* the calls of AnyDecoder that do not go through detect
Quiet == { "fail_on_unknown_format", "get_ref", "get_mut", "into_inner" }

\* self.reader is Some: no call has run detect yet
Undetected == harness = "AnyDecoder" /\ reader

\* C19: AnyDecoder::new succeeds and fetches nothing; while the decoder is
\* Undetected the cursors are first = last = 0, the source is at position 0
\* and no call has reached it; fail_on_unknown_format, get_ref, get_mut and
\* into_inner succeed there, leave the decoder Undetected and change neither
\* the lookahead nor the source; kind() and the read-shaped calls, and only
\* they, run the sniff; into_inner() before detection returns the whole
\* source.
C19_LazyDetection ==
    /\ [](lastOp.name = "new" => Undetected /\ alive)
    /\ [](Undetected =>
            /\ first = 0 /\ last = 0 /\ pos = 0 /\ errs = 0
            /\ inner = "Empty" /\ hist.sniffs = 0 /\ delivered = << >>
            /\ lastRes.calls = 0 /\ lastRes.tag \in { "None", "Ok" }
            /\ (lastOp.name = "into_inner" => MR_into_inner(MR) = content))
    /\ [][ Undetected =>
             IF lastOp'.name \in Quiet
             THEN /\ reader' /\ ~lastRes'.sniffed /\ lastRes'.tag = "Ok"
                  /\ UNCHANGED << buf, first, last, pos, faults, errs, inner >>
             ELSE ~reader' /\ lastRes'.sniffed ]_vars

\* into_inner() on a decoder that is still Undetected after the flag was
\* set and get_mut() was called, over a source that holds a full magic
C19_Witness ==
    /\ Undetected /\ lastOp.name = "into_inner" /\ ~alive
    /\ fail_on_unknown_format
    /\ Len(content) >= MAX_MAGIC_BYTES /\ NoRuleMatches = FALSE

-----------------------------------------------------------------------------
(* Calls that the bytes of the lookahead satisfy *)

\* the calls the claim is about
BufferedOps == { "read", "read_vectored", "read_exact" }

\* the total length of the buffers passed to the call op
Requested(op) ==
    IF op.name = "read_vectored" THEN op.arg[1] + op.arg[2] ELSE op.arg

\* C20: a read, read_vectored or read_exact on a MagicReader with
\* first < last whose request is at most last - first invokes no method of
\* the source, and no call on the source is made by a call that leaves
\* first < last.
C20_NoSourceCall ==
    [][ (harness = "MagicReader" /\ first < last /\ lastOp'.name \in BufferedOps) =>
          /\ Requested(lastOp') <= last - first => lastRes'.calls = 0
          /\ first' < last' => lastRes'.calls = 0 ]_vars

\* a read of one byte served from a lookahead that still holds bytes
\* afterwards, during which the source was called and failed
C20_Witness ==
    /\ harness = "MagicReader" /\ lastOp.name = "read" /\ lastOp.arg = 1
    /\ first > 0 /\ first < last
    /\ lastRes.calls = 1 /\ lastRes.tag = "Err"

-----------------------------------------------------------------------------
(* Requests larger than the lookahead *)

\* the read-shaped methods of MagicReader
ReadOps == { "read", "read_vectored", "read_exact", "read_to_end", "read_to_string" }

\* the call op asks for more than n bytes; read_to_end and read_to_string
\* ask for everything
AsksMoreThan(op, n) ==
    op.name \in { "read_to_end", "read_to_string" } \/ Requested(op) > n

\* C21: a read-shaped call on a MagicReader with first < last that asks for
\* more than last - first bytes empties the lookahead and, in the same
\* call, calls the source for the remainder; when it succeeds its output
\* starts with buf[first..last].
C21_RemainderForwarded ==
    [][ (harness = "MagicReader" /\ first < last /\ lastOp'.name \in ReadOps
         /\ AsksMoreThan(lastOp', last - first)) =>
          /\ first' = last'
          /\ lastRes'.calls >= 1
          /\ lastRes'.tag = "Ok" => IsPrefix(Buffered, lastRes'.out) ]_vars

\* a read_vectored that asked for more than the lookahead held, returned
\* only the lookahead and made no call on a source that holds more bytes
C21_Witness ==
    /\ harness = "MagicReader" /\ lastOp.name = "read_vectored"
    /\ lastRes.tag = "Ok" /\ lastRes.n > 0 /\ lastRes.n < FirstNonEmpty(lastOp.arg)
    /\ lastRes.calls = 0 /\ first = last /\ pos < Len(content)

-----------------------------------------------------------------------------
(* read_to_string over the lookahead *)

\* the call just made did not end with an error of the source
NoSourceError == lastRes.tag = "Ok" \/ lastRes.err.kind = "InvalidData"

\* C22: read_to_string on a MagicReader with first < last, when the source
\* does not fail: the bytes of the lookahead joined with the rest of the
\* source are validated together; when they are UTF-8 exactly they are
\* appended and the count is their number, otherwise the call fails with
\* InvalidData and nothing is appended.
C22_JointUtf8 ==
    [][ (first < last /\ lastOp'.name = "read_to_string" /\ NoSourceError') =>
          IF Utf8Valid(Buffered \o Unread)
          THEN /\ lastRes'.tag = "Ok"
               /\ lastRes'.n = Len(Buffered) + Len(Unread)
               /\ delivered' = delivered \o Buffered \o Unread
          ELSE /\ lastRes'.tag = "Err" /\ lastRes'.err.kind = "InvalidData"
               /\ delivered' = delivered ]_vars

\* a read_to_string that succeeded on text whose two-byte character lies
\* across the end of the lookahead: byte 6 in buf, byte 7 read afresh
C22_Witness ==
    /\ harness = "MagicReader" /\ lastOp.name = "read_to_string"
    /\ lastRes.tag = "Ok" /\ lastRes.n = Len(content) /\ lastRes.calls >= 1
    /\ last = MAX_MAGIC_BYTES /\ first = last
    /\ Len(content) > MAX_MAGIC_BYTES /\ content[MAX_MAGIC_BYTES] >= 128

-----------------------------------------------------------------------------
(* fill_buf and consume *)

\* the slice the fill_buf just made was empty: only the source returns an
\* empty slice, and it records that as its end of stream
EmptySlice == lastRes.eofSeen

\* C23: on the BufRead MagicReader, sniffed or not, as long as no call has
\* failed: fill_buf() followed by consume(n) hands out exactly the next n
\* bytes of the content after those already delivered, and fill_buf()
\* returns an empty slice exactly when the whole content has been
\* delivered; so the consumed slices, concatenated, are the content.
C23_PeekConsumeExact ==
    [][ (harness = "MagicReader" /\ lastOp'.name = "fill_buf" /\ ~hist'.failed) =>
          /\ lastRes'.out = SubSeq(content, Len(delivered) + 1,
                                   Len(delivered) + lastOp'.arg)
          /\ delivered' = delivered \o lastRes'.out
          /\ EmptySlice' <=> delivered = content ]_vars

\* the fill_buf that returned the empty slice after a sniffed MagicReader
\* over the longest content, fetched in several pieces, was consumed whole
C23_Witness ==
    /\ harness = "MagicReader" /\ frontend = "BufRead" /\ ~hist.failed
    /\ hist.sniffs = 1 /\ last = MAX_MAGIC_BYTES /\ first = last
    /\ lastOp.name = "fill_buf" /\ EmptySlice
    /\ Len(content) = MaxLen /\ cuts # {} /\ delivered = content

-----------------------------------------------------------------------------
(* The AnyEncoder on its own: every write-shaped call, kind, get_ref,      *)
(* get_mut, finish and drop, over a writer whose calls can accept fewer    *)
(* bytes than offered or fail.                                             *)

MaxSinkFaults == 2   \* outcomes that can be queued for the writer
MaxOffered == 3      \* most bytes reported as accepted by one encoder

\* the queued outcomes of a call on the writer: it accepts one byte, or
\* none, or fails; a writer with nothing queued accepts everything
SinkOutcomes == { "One", "Zero", "Interrupted", "Other" }

SinkScripts == UNION { [1..n -> SinkOutcomes] : n \in 0..MaxSinkFaults }

\* the buffers passed to write, write_all and write_fmt
Chunks == { << >>, << 7 >>, << 1, 2 >> }

\* the buffer lists passed to write_vectored
ChunkLists == { << << >>, << 7 >>, << >> >>, << << 1, 2 >>, << 3 >>, << >> >> }

\* all the bytes of a write-shaped call's argument
Offered(op, arg) ==
    IF op = "write_vectored" THEN arg[1] \o arg[2] \o arg[3]
    ELSE IF op = "flush" THEN << >> ELSE arg

\* the record of a call on the encoder with result r; out is what the
\* call showed of the writer, k the EncoderKind it returned
EncRes(r, out, k) ==
    [NoRes EXCEPT !.tag = r.tag, !.n = r.n, !.err = r.err, !.out = out, !.kind = k]

\* the variables the encoder does not touch
NoDecoder ==
    UNCHANGED << frontend, harness, content, cuts, pos, faults, errs, buf, first,
                 last, reader, inner, fail_on_unknown_format, delivered >>

\* AnyEncoder::new(writer, kind, compression) for a writer with queued
\* outcomes
InitEnc ==
    /\ harness = "AnyEncoder"
    /\ \E k \in EncoderKinds, sc \in SinkScripts :
         \E c \in (IF k = "Zlib" THEN Compressions ELSE { "Default" }) :
            encoder = AnyEncoder_new(Writer(sc), k, c)
    /\ frontend = "Read"
    /\ content = << >>
    /\ cuts = {}
    /\ faults = << >>
    /\ pos = 0
    /\ errs = 0
    /\ buf = [i \in 1..MAX_MAGIC_BYTES |-> 0]
    /\ first = 0
    /\ last = 0
    /\ reader = FALSE
    /\ inner = "Empty"
    /\ fail_on_unknown_format = FALSE
    /\ alive = TRUE
    /\ delivered = << >>
    /\ lastOp = [name |-> "new", arg |-> << >>]
    /\ lastRes = NoRes
    /\ hist = [failed |-> FALSE, sniffs |-> 0, used |-> FALSE, kinds |-> {}]

\* the state after the call op(arg) on the encoder returned r
EncApplied(op, arg, r, out, k) ==
    /\ encoder' = r.e
    /\ lastOp' = [name |-> op, arg |-> arg]
    /\ lastRes' = EncRes(r, out, k)
    /\ hist' = [hist EXCEPT !.failed = @ \/ r.tag = "Err", !.used = TRUE]
    /\ NoDecoder

\* write, write_vectored, write_all, write_fmt or flush on the encoder
WriteShaped(op, arg) ==
    /\ harness = "AnyEncoder" /\ alive
    /\ Len(encoder.written) + Len(Offered(op, arg)) <= MaxOffered
    /\ EncApplied(op, arg, AnyEncoder_op(encoder, op, arg), << >>, "None")
    /\ UNCHANGED alive

\* AnyEncoder::kind()
EncoderKindOf ==
    /\ harness = "AnyEncoder" /\ alive
    /\ EncApplied("kind", << >>, WRes(encoder, "Ok", 0, NoErr), << >>,
                  AnyEncoder_kind_of(encoder))
    /\ UNCHANGED alive

\* AnyEncoder::get_ref() and get_mut(): the writer as it is
WriterOf(name) ==
    /\ harness = "AnyEncoder" /\ alive
    /\ EncApplied(name, << >>, WRes(encoder, "Ok", 0, NoErr), encoder.sink, "None")
    /\ UNCHANGED alive

\* AnyEncoder::finish(): consumes the encoder and returns the writer
Finished ==
    /\ harness = "AnyEncoder" /\ alive
    /\ EncApplied("finish", << >>,
                  WRes(AnyEncoder_finish(encoder), AnyEncoder_finished(encoder).tag,
                       0, AnyEncoder_finished(encoder).err),
                  AnyEncoder_finish(encoder).sink, "None")
    /\ alive' = FALSE

\* the encoder goes out of scope.  AnyEncoder has no Drop of its own: the
\* writer of the Write variant is dropped as it is, an engine runs the
\* destructor of its crate, which may or may not emit the rest of the
\* stream (try: whether it does); errors of a destructor are not reported
Dropped(try) ==
    /\ harness = "AnyEncoder" /\ alive
    /\ encoder.kind = "Write" => ~try
    /\ EncApplied("drop", << >>,
                  WRes(IF try THEN Engine_finish(encoder).e ELSE encoder, "Ok", 0, NoErr),
                  << >>, "None")
    /\ alive' = FALSE

NextEnc ==
    \/ \E b \in Chunks : WriteShaped("write", b)
    \/ \E bufs \in ChunkLists : WriteShaped("write_vectored", bufs)
    \/ \E b \in Chunks : WriteShaped("write_all", b)
    \/ \E b \in Chunks : WriteShaped("write_fmt", b)
    \/ WriteShaped("flush", << >>)
    \/ EncoderKindOf
    \/ \E name \in { "get_ref", "get_mut" } : WriterOf(name)
    \/ Finished
    \/ \E try \in BOOLEAN : Dropped(try)

SpecEnc == InitEnc /\ [][NextEnc]_vars

\* C24: kind() returns the EncoderKind that was passed to AnyEncoder::new,
\* right after construction and after any write-shaped calls, failed ones
\* included, and no call changes the variant of the encoder.
C24_KindIsAsked ==
    /\ [](lastOp.name = "new" => encoder.kind = encoder.asked)
    /\ [](lastOp.name = "kind" => lastRes.tag = "Ok" /\ lastRes.kind = encoder.asked)
    /\ [][encoder'.kind = encoder.kind /\ encoder'.asked = encoder.asked]_vars

\* kind() on a Zlib encoder after bytes were accepted and a call failed
C24_Witness ==
    /\ harness = "AnyEncoder" /\ lastOp.name = "kind" /\ lastRes.kind = "Zlib"
    /\ encoder.level = "Best" /\ encoder.written # << >> /\ hist.failed

-----------------------------------------------------------------------------
(* Pass-through of the encoder *)

WriteOps == { "write", "write_vectored", "write_all", "write_fmt", "flush" }

\* the buffer a write-shaped call hands to the engine
Handed(op) ==
    IF op.name = "write_vectored" THEN FirstBuf(op.arg)
    ELSE IF op.name = "flush" THEN << >> ELSE op.arg

\* a step that is a write or write_vectored on the Write variant returns
\* what the writer returns for that buffer: its error as it is, or the
\* count it accepted, with exactly those bytes added to the writer
WriteForwarded ==
    (encoder.kind = "Write" /\ lastOp'.name \in { "write", "write_vectored" }) =>
        IF SinkOutcome(encoder) \in { "Interrupted", "Other" }
        THEN /\ lastRes'.tag = "Err" /\ lastRes'.err.kind = SinkOutcome(encoder)
             /\ encoder'.sink = encoder.sink
        ELSE /\ lastRes'.tag = "Ok"
             /\ lastRes'.n = Accepts(SinkOutcome(encoder), Len(Handed(lastOp')))
             /\ encoder'.sink = encoder.sink \o Take(Handed(lastOp'), lastRes'.n)

\* a step that is a write_all or write_fmt on the Write variant and
\* succeeds has added the whole buffer to the writer; one that fails has
\* added a proper prefix of it at most
WriteAllForwarded ==
    (encoder.kind = "Write" /\ lastOp'.name \in { "write_all", "write_fmt" }) =>
        IF lastRes'.tag = "Ok"
        THEN encoder'.sink = encoder.sink \o lastOp'.arg
        ELSE \E k \in 0..Len(lastOp'.arg) :
                 encoder'.sink = encoder.sink \o Take(lastOp'.arg, k)

\* a write-shaped step on an engine variant other than flush hands the
\* buffer to that engine and leaves the writer alone; no step reaches an
\* engine on the Write variant
EngineForwarded ==
    /\ (encoder.kind \in Engines /\ lastOp'.name \in WriteOps \ { "flush" }) =>
          /\ lastRes'.tag = "Ok"
          /\ encoder'.pending = encoder.pending \o Handed(lastOp')
          /\ encoder'.sink = encoder.sink
    /\ encoder.kind = "Write" => encoder'.pending = << >> /\ ~encoder'.headed

\* flush, kind, get_ref and get_mut add nothing to the writer of the Write
\* variant, and finish returns that writer as it is
OthersForwarded ==
    /\ (encoder.kind = "Write" /\ lastOp'.name \notin WriteOps \ { "flush" }) =>
          encoder'.sink = encoder.sink
    /\ (encoder.kind = "Write" /\ lastOp'.name = "finish") =>
          lastRes'.tag = "Ok" /\ lastRes'.out = encoder.sink

PassThrough ==
    harness = "AnyEncoder" =>
        WriteForwarded /\ WriteAllForwarded /\ EngineForwarded /\ OthersForwarded

-----------------------------------------------------------------------------
(* Streams with a magic and a payload that is truncated or missing *)

\* for each engine: its magic alone, its magic and a payload without the
\* end marker, a finished stream; and a stream that matches no rule
LazyStreams ==
    UNION { { Header(k, "Default"),
              Header(k, "Default") \o Counting(MaxPayload),
              Header(k, "Default") \o Counting(MaxPayload) \o Trailer } : k \in Engines }
    \cup { Hello }

\* AnyDecoder::new over a source that holds one of the LazyStreams
InitLazy ==
    /\ harness = "AnyDecoder"
    /\ content \in LazyStreams
    /\ reader = TRUE
    /\ InitCommon

NextLazy ==
    \/ \E v \in BOOLEAN : FailOnUnknownFormat(v)
    \/ Kind
    \/ ReadToEndDecoded

SpecLazy == InitLazy /\ [][NextLazy]_vars

\* the format of the rule the leading bytes of the content match
Leading == MatchMagic(Take(content, MAX_MAGIC_BYTES))

\* the content starts with a magic and is not a finished stream of that
\* format
Malformed == Leading # "Unknown" /\ ~WellFormed(Leading, content)

\* C26: for a stream that starts with a magic and whose remainder is
\* truncated or missing, read from a source that does not fail: no call
\* before the first read-shaped call fails, kind() returns the format of
\* the magic whatever the flag is, and the first read_to_end fails with
\* the error of the engine, not with the unknown-format error.
C26_LazyMalformed ==
    /\ []((Malformed /\ errs = 0 /\ ~hist.used) => ~hist.failed)
    /\ []((Malformed /\ errs = 0 /\ lastOp.name = "kind") =>
             lastRes.tag = "Ok" /\ lastRes.kind = Leading)
    /\ [][ (Malformed /\ errs' = 0 /\ ~hist.used /\ lastOp'.name = "read_to_end") =>
             /\ lastRes'.tag = "Err"
             /\ lastRes'.err.kind = "CorruptStream"
             /\ inner' = Leading ]_vars

\* the stream 1F 8B 08: in strict mode kind() returned Gz and the
\* read_to_end after it failed with the error of the engine
C26_Witness ==
    /\ content = GzMagic /\ fail_on_unknown_format /\ errs = 0
    /\ hist.kinds = { "Gz" } /\ lastOp.name = "read_to_end" /\ ~lastRes.sniffed
    /\ lastRes.tag = "Err" /\ lastRes.err.kind = "CorruptStream"

-----------------------------------------------------------------------------
(* Compression levels.  A u32 is the pair of its 16-bit halves, hi and lo, *)
(* so that every u32 and every i32 keeps its width.                        *)

Half == 2 ^ 16

U32(hi, lo) == [hi |-> hi, lo |-> lo]

\* Compression::Fast, Default, Best and Level(n)
Named(tag) == [tag |-> tag, n |-> U32(0, 0)]
Level(n) == [tag |-> "Level", n |-> n]

\* the halves of the levels tried: around 0, around the largest i32 and
\* around the largest u32
Halves == { 0, 1, 22, Half \div 2 - 1, Half \div 2, Half - 1 }

CompressionInputs ==
    { Named("Fast"), Named("Default"), Named("Best") }
    \cup { Level(U32(hi, lo)) : hi \in Halves \ { 22 }, lo \in Halves }

\* i as i32 for a u32 i: the same 32 bits read as two's complement
AsI32(i) == (IF i.hi >= Half \div 2 THEN i.hi - Half ELSE i.hi) * Half + i.lo

\* Compression::to_xz
to_xz(c) ==
    CASE c.tag = "Fast" -> U32(0, 1)
      [] c.tag = "Default" -> U32(0, 5)
      [] c.tag = "Best" -> U32(0, 9)
      [] c.tag = "Level" -> c.n

\* Compression::to_zstd
to_zstd(c) ==
    CASE c.tag = "Fast" -> 1
      [] c.tag = "Default" -> 0
      [] c.tag = "Best" -> 22
      [] c.tag = "Level" -> AsI32(c.n)

\* Compression::to_flate2 and to_bzip2: the Compression of the crate, built
\* by its fast(), default(), best() or new(i)
to_crate(c) == IF c.tag = "Level" THEN [made |-> "new", n |-> c.n]
               ELSE [made |-> c.tag, n |-> U32(0, 0)]

\* Compression::to_level(encoder)
to_level(c, kind) ==
    CASE kind = "Write" -> [variant |-> "Write", level |-> << >>]
      [] kind \in { "Gz", "Zlib", "Bz" } -> [variant |-> kind, level |-> to_crate(c)]
      [] kind = "Xz" -> [variant |-> "Xz", level |-> to_xz(c)]
      [] kind = "Zstd" -> [variant |-> "Zstd", level |-> to_zstd(c)]

\* a Compression value, before any conversion of it
InitLevel ==
    /\ harness = "Compression"
    /\ \E c \in CompressionInputs : encoder = [NoEncoder EXCEPT !.level = c]
    /\ frontend = "Read"
    /\ content = << >>
    /\ cuts = {}
    /\ faults = << >>
    /\ pos = 0
    /\ errs = 0
    /\ buf = [i \in 1..MAX_MAGIC_BYTES |-> 0]
    /\ first = 0
    /\ last = 0
    /\ reader = FALSE
    /\ inner = "Empty"
    /\ fail_on_unknown_format = FALSE
    /\ alive = TRUE
    /\ delivered = << >>
    /\ lastOp = [name |-> "new", arg |-> "None"]
    /\ lastRes = NoRes
    /\ hist = [failed |-> FALSE, sniffs |-> 0, used |-> FALSE, kinds |-> {}]

\* the state after the conversion `name` for the encoder `kind` gave `level`
Converted(name, kind, level) ==
    /\ harness = "Compression"
    /\ lastOp' = [name |-> name, arg |-> kind]
    /\ lastRes' = [NoRes EXCEPT !.tag = "Ok", !.out = << level >>]
    /\ UNCHANGED << frontend, harness, content, cuts, pos, faults, errs, buf, first,
                    last, reader, inner, fail_on_unknown_format, alive, delivered,
                    hist, encoder >>

ToXz == Converted("to_xz", "Xz", to_xz(encoder.level))

ToZstd == Converted("to_zstd", "Zstd", to_zstd(encoder.level))

ToLevel(kind) == Converted("to_level", kind, to_level(encoder.level, kind))

NextLevel ==
    \/ ToXz
    \/ ToZstd
    \/ \E kind \in EncoderKinds : ToLevel(kind)

SpecLevel == InitLevel /\ [][NextLevel]_vars

\* the i32 v has the value of the u32 n
SameValue(v, n) == v >= 0 /\ v \div Half = n.hi /\ v % Half = n.lo

\* C27: for every u32 n, to_xz of Level(n) is n and to_zstd of Level(n) is
\* an i32 whose value is n, also inside to_level.
C27_LevelsUnaltered ==
    (harness = "Compression" /\ encoder.level.tag = "Level") =>
        /\ lastOp.name = "to_xz" => lastRes.out[1] = encoder.level.n
        /\ lastOp.name = "to_zstd" => SameValue(lastRes.out[1], encoder.level.n)
        /\ (lastOp.name = "to_level" /\ lastOp.arg = "Xz")
              => lastRes.out[1].level = encoder.level.n
        /\ (lastOp.name = "to_level" /\ lastOp.arg = "Zstd")
              => SameValue(lastRes.out[1].level, encoder.level.n)

\* to_zstd of Level(4294967295) returned -1
C27_Witness ==
    /\ harness = "Compression" /\ lastOp.name = "to_zstd"
    /\ encoder.level = Level(U32(Half - 1, Half - 1))
    /\ lastRes.out[1] = 0 - 1

-----------------------------------------------------------------------------
(* Finalization *)

\* a step that is finish(): it consumes the encoder; when it succeeds it
\* returns the writer, and the writer of an engine then ends with the end
\* marker and, when no earlier call failed, holds a finished stream of the
\* bytes reported as accepted
FinishFinalizes ==
    (harness = "AnyEncoder" /\ lastOp'.name = "finish") =>
        /\ ~alive'
        /\ lastRes'.tag = "Ok" =>
              /\ encoder'.finished
              /\ lastRes'.out = encoder'.sink
              /\ encoder.kind \in Engines =>
                    /\ encoder'.ended
                    /\ ~hist.failed =>
                          /\ WellFormed(encoder.kind, encoder'.sink)
                          /\ Payload(encoder.kind, encoder'.sink) = encoder'.written

\* a step in which the end marker reaches the writer
Finalizing == harness = "AnyEncoder" /\ ~encoder.ended /\ encoder'.ended

C29_CursorInvariant ==
    harness = "MagicReader" =>
        /\ 0 <= first
        /\ first <= last
        /\ last <= MAX_MAGIC_BYTES

\* C29 witness: a full lookahead (last = 6, filled in several steps) of
\* which consume(n), n > 0, took a part without a call of the source, and
\* some of it is still unread
C29_Witness ==
    /\ harness = "MagicReader" /\ frontend = "BufRead"
    /\ lastOp.name = "fill_buf" /\ lastOp.arg > 0 /\ lastRes.calls = 0
    /\ 0 < first /\ first < last /\ last = MAX_MAGIC_BYTES

\* self.reader is None and self.inner is a real variant
Detected == harness = "AnyDecoder" /\ ~reader /\ inner # "Empty"

\* C30: the lookahead buffer is filled once.  `last` changes only in the
\* call that runs the one sniff of the decoder, where it grows, and it never
\* exceeds MAX_MAGIC_BYTES; from a Detected decoder no call changes `last`
\* or a byte of buf; and no call makes `first` smaller.
C30_FilledOnce ==
    /\ [](last <= MAX_MAGIC_BYTES)
    /\ [][ /\ last' # last =>
                 /\ reader /\ lastRes'.sniffed /\ hist.sniffs = 0
                 /\ last' > last
           /\ Detected => (last' = last /\ buf' = buf)
           /\ first' >= first ]_vars

\* C30 witness: a Detected decoder whose lookahead the sniff filled in part
\* or whole, after a later call that did not sniff and took bytes of it
C30_Witness ==
    /\ Detected /\ hist.sniffs = 1 /\ ~lastRes.sniffed
    /\ lastOp.name \in ReadOps /\ lastRes.tag \in { "Ok", "Engine" }
    /\ last > 0 /\ first > 0
    /\ \E i \in 1..last : buf[i] # 0

-----------------------------------------------------------------------------
(* The drained MagicReader *)

\* fill_buf() and then consume(n) on the source itself
R_fill_buf_consume(f, n) ==
    IF f.tag = "Err" THEN f ELSE Ok(R_consume(f.st, n), n, Take(f.out, n))

\* the operation op called on the source itself, with the same arguments
Source_op(st, op, arg) ==
    CASE op = "read" -> R_read(st, arg)
      [] op = "read_vectored" -> R_read_vectored(st, arg)
      [] op = "read_exact" -> R_read_exact(st, arg)
      [] op = "read_to_end" -> R_read_to_end(st)
      [] op = "read_to_string" -> R_read_to_string(st)
      [] op = "fill_buf" -> R_fill_buf_consume(R_fill_buf(st), arg)

\* the step ended as the call r on the source ends: same result, same calls
\* made on the source, same state of the source
SameAsSource(r) ==
    /\ lastRes' = Res(r, FALSE, 0, "None")
    /\ pos' = r.st.pos
    /\ faults' = r.st.faults
    /\ errs' = r.st.errs

\* C31: drained pass-through.  From a MagicReader with first = last, every
\* read, read_vectored, read_exact, read_to_end, read_to_string and
\* fill_buf/consume leaves first, last and buf as they are (so the reader
\* stays drained and nothing goes through buf), makes the calls on the
\* source that the same operation of the source makes, and returns its
\* result.
C31_DrainedPassThrough ==
    [][ (harness = "MagicReader" /\ first = last /\ lastOp'.name # "sniff") =>
          /\ first' = first /\ last' = last /\ buf' = buf
          /\ SameAsSource(Source_op(MR, lastOp'.name, lastOp'.arg)) ]_vars

\* C31 witness: a sniffed MagicReader whose lookahead was read out, and a
\* later read that got bytes from the source
C31_Witness ==
    /\ harness = "MagicReader" /\ hist.sniffs = 1
    /\ first = last /\ last = MAX_MAGIC_BYTES
    /\ lastOp.name = "read" /\ lastRes.tag = "Ok" /\ lastRes.n > 0
    /\ lastRes.calls = 1 /\ Len(delivered) = MAX_MAGIC_BYTES + lastRes.n

-----------------------------------------------------------------------------
(* Errors of read over the lookahead *)

\* C32: no hidden partial success in read.  A MagicReader::read that
\* returns an error leaves `first` as it was, so the bytes of the lookahead
\* are all still there for the retry.
C32_ReadErrorKeepsFirst ==
    [][ (harness = "MagicReader" /\ lastOp'.name = "read" /\ lastRes'.tag = "Err") =>
          first' = first ]_vars

\* a first read after the sniff that failed in the source after do_read had
\* taken the whole lookahead: nothing was delivered and nothing is buffered
C32_Witness ==
    /\ harness = "MagicReader" /\ hist.sniffs = 1
    /\ lastOp.name = "read" /\ lastOp.arg = MaxReq /\ lastRes.tag = "Err"
    /\ lastRes.srcErr.kind = "Interrupted"
    /\ delivered = << >> /\ last > 0 /\ first = last

-----------------------------------------------------------------------------
(* End of stream *)

\* the call just made reported end of stream: Ok(0) for buffers that are
\* not all empty, or a read_to_end / read_to_string that appended nothing
ReportsEnd ==
    /\ lastRes.tag = "Ok" /\ lastRes.out = << >>
    /\ \/ lastOp.name \in { "read_to_end", "read_to_string" }
       \/ lastOp.name = "read" /\ lastOp.arg > 0
       \/ lastOp.name = "read_vectored" /\ FirstNonEmpty(lastOp.arg) > 0

\* C33: a read-shaped call on an AnyDecoder reports end of stream only when
\* the stream is exhausted (for a Verbatim stream: the lookahead is drained
\* and the source has handed out all its bytes), and no read-shaped call
\* returns a success on a decoder whose detection has failed.
C33_EndOfStreamReal ==
    (harness = "AnyDecoder" /\ lastOp.name \in ReadOps) =>
        /\ (ReportsEnd /\ inner = "Reader") => (first = last /\ pos = Len(content))
        /\ lastRes.tag = "Ok" => inner # "Empty"

\* a read_to_end that returned Ok(0) on a decoder whose strict detection of
\* "Hello" had failed: the five bytes were never delivered
C33_Witness ==
    /\ content = Hello /\ faults = << >> /\ ~reader /\ inner = "Empty"
    /\ lastOp.name = "read_to_end" /\ lastRes.tag = "Ok" /\ ~lastRes.sniffed
    /\ delivered = << >> /\ last = Len(Hello)

-----------------------------------------------------------------------------
(* The loop of read_magic_slow, one iteration per step.  The source     *)
(* answers each fetch as it likes: with data (or its end), with            *)
(* Interrupted, or with another error.                                     *)

MaxInterrupts == 2   \* errors of the source that are told apart

\* n of one iteration whose fetch returned r: the bytes read (Read), or
\* buf.len().min(MAX_MAGIC_BYTES - self.last) (BufRead)
slow_n(r) ==
    IF r.st.fe = "Read" THEN r.n
    ELSE Min(Len(r.out), MAX_MAGIC_BYTES - r.st.last)

\* the MagicReader after the iteration took n bytes
slow_copied(r, n) ==
    IF r.st.fe = "Read" THEN Filled(r.st, r.out)
    ELSE read_magic_slow_BufRead_copy(r, n)

\* one iteration of the loop, r the result of its fetch: the value it
\* returns with, or the state it goes round again with
slow_iteration(r) ==
    IF r.tag = "Err"
    THEN [res |-> r, done |-> r.err.kind # "Interrupted", data |-> 0]
    ELSE IF slow_n(r) = 0
    THEN [res |-> MagicOf(r.st), done |-> TRUE, data |-> 0]
    ELSE [res |-> MagicOf(slow_copied(r, slow_n(r))),
          done |-> r.st.last + slow_n(r) = MAX_MAGIC_BYTES, data |-> 1]

\* the contents of the sources of the loop, handed out whole, in three
\* pieces, or byte by byte
InitSniff ==
    /\ harness = "Sniff"
    /\ frontend \in { "Read", "BufRead" }
    /\ content \in { Counting(n) : n \in Lengths }
    /\ cuts \in { {}, 1..MaxCut, 1..(MAX_MAGIC_BYTES - 1) }
    /\ faults = << >>
    /\ pos = 0 /\ errs = 0
    /\ buf = [i \in 1..MAX_MAGIC_BYTES |-> 0]
    /\ first = 0 /\ last = 0
    /\ reader = FALSE /\ inner = "Empty" /\ fail_on_unknown_format = FALSE
    /\ alive = TRUE /\ delivered = << >>
    /\ lastOp = [name |-> "new", arg |-> 0]
    /\ lastRes = NoRes
    /\ hist = [failed |-> FALSE, sniffs |-> 0, used |-> FALSE, kinds |-> {}]
    /\ encoder = NoEncoder

\* the state after a step of the sniff that ended as `it` says; the loop
\* counts its fetches that returned data
Sniffed(name, it) ==
    /\ buf' = it.res.st.buf
    /\ first' = it.res.st.first
    /\ last' = it.res.st.last
    /\ pos' = it.res.st.pos
    /\ faults' = << >>
    /\ errs' = Min(it.res.st.errs, MaxInterrupts)
    /\ lastOp' = [name |-> name,
                  arg |-> IF name = lastOp.name THEN lastOp.arg + it.data ELSE 0]
    /\ lastRes' = [Res(it.res, TRUE, 0, "None") EXCEPT
                      !.tag = IF it.done THEN it.res.tag ELSE "None"]
    /\ UNCHANGED << reader, inner, fail_on_unknown_format, alive, delivered, hist >>
    /\ Static

\* read_magic() on the new MagicReader, the source answering with o; with
\* fewer than MAX_MAGIC_BYTES bytes the caller goes on to read_magic_slow
SniffReadMagic(o) ==
    /\ harness = "Sniff" /\ lastOp.name = "new"
    /\ \E m \in { read_magic([MR EXCEPT !.faults = << o >>]) } :
          Sniffed(IF m.tag = "Ok" /\ Len(m.out) < MAX_MAGIC_BYTES
                  THEN "read_magic_slow" ELSE "read_magic",
                  [res |-> m, data |-> 0,
                   done |-> m.tag = "Err" \/ Len(m.out) >= MAX_MAGIC_BYTES])

\* the call of read_magic_slow is under way
Looping == harness = "Sniff" /\ lastOp.name = "read_magic_slow" /\ lastRes.tag = "None"

\* one iteration of the loop of read_magic_slow, the source answering o
SniffIterate(o) ==
    /\ Looping
    /\ \E r \in { IF frontend = "Read"
                  THEN R_read([MR EXCEPT !.faults = << o >>], MAX_MAGIC_BYTES - last)
                  ELSE R_fill_buf([MR EXCEPT !.faults = << o >>]) } :
          \E it \in { slow_iteration(r) } : Sniffed("read_magic_slow", it)

NextSniff ==
    \/ \E o \in FaultKinds : SniffReadMagic(o)
    \/ \E o \in { "Ok", "Other" } : SniffIterate(o)
    \/ SniffIterate("Interrupted")

\* the source does not answer Interrupted for ever: an iteration with
\* another answer comes
SpecSniff ==
    /\ InitSniff /\ [][NextSniff]_vars
    /\ WF_vars(\E o \in FaultKinds : SniffReadMagic(o))
    /\ WF_vars(\E o \in { "Ok", "Other" } : SniffIterate(o))

\* read_magic_slow has returned
Returned == harness = "Sniff" /\ lastOp.name = "read_magic_slow" /\ lastRes.tag # "None"

\* C34: sniff termination.  Under the fairness of SpecSniff, read_magic_slow
\* returns; when it returns Ok it returns buf[..last], which is either
\* MAX_MAGIC_BYTES bytes or the bytes collected when the source reported its
\* end (nothing more to take); it makes at most MAX_MAGIC_BYTES fetches that
\* returned data; and every iteration that neither returns nor is
\* interrupted makes `last` larger.
C34_SniffTerminates ==
    /\ <>(lastOp.name = "read_magic" \/ Returned)
    /\ [](lastOp.name = "read_magic_slow" => lastOp.arg <= MAX_MAGIC_BYTES)
    /\ []((Returned /\ lastRes.tag = "Ok") =>
            /\ lastRes.out = SubSeq(buf, 1, last)
            /\ last = MAX_MAGIC_BYTES \/ pos = Len(content))
    /\ [][ (Looping /\ Looping' /\ lastRes'.err.kind # "Interrupted") =>
             last' > last ]_vars

\* C34 witness: read_magic_slow on the peekable front-end returned the six
\* bytes after six fetches of one byte and after Interrupted answers
C34_Witness ==
    /\ Returned /\ lastRes.tag = "Ok" /\ frontend = "BufRead"
    /\ lastOp.arg = MAX_MAGIC_BYTES /\ last = MAX_MAGIC_BYTES
    /\ errs > 0 /\ Len(content) > MAX_MAGIC_BYTES

-----------------------------------------------------------------------------
(* What the detection takes from the source *)

\* C35: the detection consumes at most MAX_MAGIC_BYTES bytes of the source
\* on either front-end; on the BufRead front-end, when the first fill_buf
\* shows at least MAX_MAGIC_BYTES bytes, it consumes none, writes nothing
\* into buf and leaves first = last = 0.
C35_DetectionTakesAtMostSix ==
    (harness = "AnyDecoder" /\ lastOp.name = "kind" /\ lastRes.sniffed) =>
        /\ pos <= MAX_MAGIC_BYTES
        /\ (frontend = "BufRead" /\ NextCut(0) >= MAX_MAGIC_BYTES) =>
              /\ pos = 0
              /\ buf = [i \in 1..MAX_MAGIC_BYTES |-> 0]
              /\ first = 0 /\ last = 0

\* C35 witness: kind() on the BufRead front-end over a source of MaxLen
\* bytes shown whole by the first fill_buf
C35_Witness ==
    /\ harness = "AnyDecoder" /\ frontend = "BufRead"
    /\ lastOp.name = "kind" /\ lastRes.sniffed /\ lastRes.tag = "Ok"
    /\ Len(content) = MaxLen /\ cuts = {} /\ lastRes.calls = 1
    /\ pos = 0 /\ last = 0

-----------------------------------------------------------------------------
(* The slice the sniff returns *)

\* C36: sniffed prefix.  The slice returned by read_magic followed, when it
\* returned fewer than MAX_MAGIC_BYTES bytes, by read_magic_slow is a prefix
\* of the content of the source; on the Read front-end its length is
\* min(MAX_MAGIC_BYTES, length of the content), it is buf[0..last], and
\* first = 0.
C36_SniffedPrefix ==
    (harness = "MagicReader" /\ lastOp.name = "sniff" /\ lastRes.tag = "Ok") =>
        /\ IsPrefix(lastRes.out, content)
        /\ Len(lastRes.out) <= Len(content)
        /\ frontend = "Read" =>
              /\ Len(lastRes.out) = Min(MAX_MAGIC_BYTES, Len(content))
              /\ lastRes.out = SubSeq(buf, 1, last)
              /\ first = 0

\* C36 witness: the sniff of a source of five bytes on the Read front-end,
\* collected in three reads and one more that reported the end
C36_Witness ==
    /\ harness = "MagicReader" /\ frontend = "Read"
    /\ lastOp.name = "sniff" /\ lastRes.tag = "Ok"
    /\ Len(content) = MAX_MAGIC_BYTES - 1 /\ cuts = { 1, 2 }
    /\ lastRes.n = Len(content) /\ lastRes.calls = 4

-----------------------------------------------------------------------------
(* The results of the read-shaped calls on a new MagicReader (test_read,   *)
(* test_read_vectored, test_read_to_end, test_read_exact)                  *)

\* C37: the first read or read_vectored on a MagicReader, sniffed or not,
\* over a content of N bytes and with buffers of L bytes in all, when it
\* succeeds: it returns n <= min(N, L), n = 0 exactly when L = 0 or N = 0,
\* and the n bytes it wrote are the first n bytes of the content.
C37_FirstRead ==
    [][ (harness = "MagicReader" /\ ~hist.used
         /\ lastOp'.name \in { "read", "read_vectored" } /\ lastRes'.tag = "Ok") =>
          /\ lastRes'.n <= Min(Len(content), Requested(lastOp'))
          /\ lastRes'.n = 0 <=> (Requested(lastOp') = 0 \/ Len(content) = 0)
          /\ Len(lastRes'.out) = lastRes'.n
          /\ lastRes'.out = SubSeq(content, 1, lastRes'.n) ]_vars

\* C37 witness: the first read after the sniff of the longest content, into
\* a buffer of MaxReq bytes: the six bytes of the lookahead and more
C37_Witness ==
    /\ harness = "MagicReader" /\ hist.sniffs = 1 /\ Len(content) = MaxLen
    /\ lastOp.name = "read" /\ lastOp.arg = MaxReq /\ lastRes.tag = "Ok"
    /\ lastRes.n > MAX_MAGIC_BYTES /\ delivered = lastRes.out
    /\ last = MAX_MAGIC_BYTES

\* no call of the source still to come fails with an error that the loops
\* of std do not retry
NoFatalQueued == \A i \in 1..Len(faults) : faults[i] # "Other"

\* C38: the first read_to_end or read_exact on a MagicReader, sniffed or
\* not, over a content of N bytes whose source raises no fatal error:
\* read_to_end appends the N bytes of the content and returns N, and
\* read_exact with a buffer of L <= N bytes succeeds and fills it with the
\* first L bytes of the content.
C38_ReadToEndAndExact ==
    [][ (harness = "MagicReader" /\ ~hist.used /\ ~hist.failed /\ NoFatalQueued) =>
          /\ lastOp'.name = "read_to_end" =>
                /\ lastRes'.tag = "Ok"
                /\ lastRes'.n = Len(content)
                /\ lastRes'.out = content
          /\ (lastOp'.name = "read_exact" /\ lastOp'.arg <= Len(content)) =>
                /\ lastRes'.tag = "Ok"
                /\ lastRes'.out = SubSeq(content, 1, lastOp'.arg) ]_vars

\* C38 witness: read_exact of MaxReq bytes right after the sniff of the
\* longest content: six bytes out of the lookahead, the rest read afresh
C38_Witness ==
    /\ harness = "MagicReader" /\ hist.sniffs = 1 /\ Len(content) = MaxLen
    /\ lastOp.name = "read_exact" /\ lastOp.arg = MaxReq /\ lastRes.tag = "Ok"
    /\ last = MAX_MAGIC_BYTES /\ first = last
    /\ delivered = SubSeq(content, 1, MaxReq) /\ lastRes.calls >= 1

-----------------------------------------------------------------------------
(* The two front-ends side by side: an AnyDecoder is run on one front-end  *)
(* and, from the record of its calls, its twin on the other front-end over *)
(* a source with the same content and the same fetch boundaries.           *)

MaxCalls == 2   \* read-shaped calls made on one decoder

\* the read-shaped calls: the method and the lengths of its buffers
FECalls ==
    { << "read", << 1 >> >>, << "read", << MaxReq >> >>,
      << "read_vectored", << MaxReq, 1 >> >>,
      << "read_exact", << 1 >> >>, << "read_exact", << MaxReq >> >>,
      << "read_to_end", << 0 >> >> }

\* the argument of the call c as the methods of the model take it
CallArg(c) == IF c[1] = "read_vectored" THEN c[2] ELSE c[2][1]

\* AnyDecoder::new(reader) on the front-end fe
NewDecoder(fe) ==
    [st |-> [buf |-> [i \in 1..MAX_MAGIC_BYTES |-> 0], first |-> 0, last |-> 0,
             pos |-> 0, faults |-> << >>, errs |-> 0, calls |-> 0,
             srcErr |-> NoErr, eofSeen |-> FALSE, afterEof |-> FALSE,
             consumed |-> 0, errAt |-> 0, fe |-> fe],
     reader |-> TRUE, inner |-> "Empty"]

\* nothing delivered and no call failed
NoneYet == [delivered |-> << >>, failed |-> FALSE]

\* the decoder d after the calls `calls`, the bytes it has delivered and
\* whether a call has failed (acc, then those of the calls); a is the
\* outcome of the first of them
RECURSIVE Run(_, _, _, _)
Ran(a, fail, rest, acc) ==
    Run(a.d, fail, rest,
        [delivered |-> IF a.res.tag \in { "Ok", "Engine" }
                       THEN acc.delivered \o a.res.out ELSE acc.delivered,
         failed |-> acc.failed \/ a.res.tag = "Err"])

Run(d, fail, calls, acc) ==
    IF calls = << >>
    THEN [d |-> d, delivered |-> acc.delivered, failed |-> acc.failed]
    ELSE Ran(AnyDecoder_op(d, fail, Head(calls)[1], CallArg(Head(calls))),
             fail, Tail(calls), acc)

\* what kind() answers, a its outcome
KindShown(a) == [tag |-> a.res.tag, kind |-> a.kind, err |-> a.res.err.kind]

InitFE ==
    /\ harness = "FrontEnds"
    /\ content \in Contents
    /\ frontend \in { "Read", "BufRead" }
    /\ cuts \in SUBSET ((1..MaxCut) \cup { MAX_MAGIC_BYTES })
    /\ faults = << >>
    /\ pos = 0 /\ errs = 0
    /\ buf = [i \in 1..MAX_MAGIC_BYTES |-> 0]
    /\ first = 0 /\ last = 0
    /\ reader = TRUE /\ inner = "Empty" /\ fail_on_unknown_format = FALSE
    /\ alive = TRUE /\ delivered = << >>
    /\ lastOp = [name |-> "new", arg |-> << >>]
    /\ lastRes = NoRes
    /\ hist = [failed |-> FALSE, sniffs |-> 0, used |-> FALSE, kinds |-> {},
               calls |-> << >>]
    /\ encoder = NoEncoder

\* fail_on_unknown_format(true), before the first read-shaped call
FEStrict ==
    /\ harness = "FrontEnds" /\ lastOp.name = "new"
    /\ fail_on_unknown_format' = TRUE
    /\ lastOp' = [name |-> "fail_on_unknown_format", arg |-> << >>]
    /\ UNCHANGED << pos, faults, errs, buf, first, last, reader, inner, alive,
                    delivered, lastRes, hist >>
    /\ Static

\* the read-shaped call c on the decoder
FECall(c) ==
    /\ harness = "FrontEnds" /\ Len(hist.calls) < MaxCalls
    /\ \E a \in { AnyDecoder_op(D, fail_on_unknown_format, c[1], CallArg(c)) } :
          /\ SetMR(a.d.st)
          /\ reader' = a.d.reader
          /\ inner' = a.d.inner
          /\ delivered' = IF a.res.tag \in { "Ok", "Engine" }
                          THEN delivered \o a.res.out ELSE delivered
          /\ lastOp' = [name |-> c[1], arg |-> c[2]]
          /\ lastRes' = Res(a.res, a.sniffed, a.sniffCalls, a.kind)
          /\ hist' = [hist EXCEPT !.failed = @ \/ a.res.tag = "Err",
                                  !.used = TRUE,
                                  !.sniffs = Min(2, @ + (IF a.sniffed THEN 1 ELSE 0)),
                                  !.calls = Append(@, c)]
    /\ UNCHANGED << fail_on_unknown_format, alive >>
    /\ Static

NextFE ==
    \/ FEStrict
    \/ \E c \in FECalls : FECall(c)

SpecFE == InitFE /\ [][NextFE]_vars

\* the front-end the decoder was not built on
OtherFE == IF frontend = "Read" THEN "BufRead" ELSE "Read"

\* the decoder built on the other front-end, after the same calls
Twin == Run(NewDecoder(OtherFE), fail_on_unknown_format, hist.calls, NoneYet)

\* no call has failed on either front-end
NoCallFailed == ~hist.failed /\ ~Twin.failed

\* delivered ++ buf[first..last] ++ source remainder, of a decoder that has
\* delivered dl and whose MagicReader is st
Whole(dl, st) ==
    dl \o SubSeq(st.buf, st.first + 1, st.last)
       \o SubSeq(content, st.pos + 1, Len(content))

\* kind() gives the same answer on both front-ends
SameFormat ==
    KindShown(AnyDecoder_kind(NewDecoder("Read"), fail_on_unknown_format))
        = KindShown(AnyDecoder_kind(NewDecoder("BufRead"), fail_on_unknown_format))

\* the calls that deliver all they were asked for or fail
WholeCalls == { "read_exact", "read_to_end" }

====
